---- MODULE Spec2Model ----
(***************************************************************************)
(* Agent-First Data (AFD) output formatting: secret redaction and the      *)
(* JSON / YAML / plain encodings of a serde_json::Value tree, with the     *)
(* status builder and the size parser, as implemented in                   *)
(* src/rust/src/lib.rs, and the tracing layer of                           *)
(* src/rust/src/afd_tracing.rs.                                            *)
(*                                                                         *)
(* Text is modelled by TLA+ strings (Len, \o and SubSeq act on them).      *)
(* A serde_json::Value is a tagged record:                                 *)
(*   Null, Bool(b), Number(n) (integer), Float(m) (m thousandths),         *)
(*   String(s), Array(<<v, ...>>), Object(<< <<k, v>>, ... >>)             *)
(* An Object holds its entries in the iteration order of the map; keys     *)
(* are unique.                                                             *)
(***************************************************************************)
EXTENDS Integers, Sequences, FiniteSets, TLC

VARIABLES
    orig,     \* the tree the caller built
    value,    \* the caller's tree now (redact_secrets mutates it in place)
    op,       \* the last operation called
    out,      \* the String returned by the last render call
    call,     \* the last call of a free-standing helper and what it returned
    spans,    \* the registry of spans: parent and SpanFields of each
    current,  \* the current span of each thread, 0 for none
    pc,       \* where each thread stands in on_event
    event,    \* the event each thread is handling and the object built for it
    lock,     \* the holder of the stdout lock
    sink      \* what was written to stdout, write by write

render == <<orig, value, op, out>>
layer == <<spans, current, pc, event, lock, sink>>
vars == <<orig, value, op, out, call, spans, current, pc, event, lock, sink>>

----------------------------------------------------------------------------
(* Bounds of the explored inputs *)

MaxFields == 3      \* entries in one enumerated multi-field object
MaxDepth == 2       \* containers wrapped around a base tree
MaxArrayLen == 2    \* elements in one enumerated scalar array

----------------------------------------------------------------------------
(* 64-bit integers and f64                                                  *)
(* A natural number is the sequence of its 16-bit limbs, least significant *)
(* first, without high zero limbs (zero is <<>>): u64, the magnitude of an *)
(* i64 and the mantissa of an f64 all exceed the integers of the checker.  *)

LimbBase == 65536

Abs(n) == IF n < 0 THEN -n ELSE n

Max(a, b) == IF a >= b THEN a ELSE b

RECURSIVE NatNorm(_)
NatNorm(a) ==
    IF Len(a) > 0 /\ a[Len(a)] = 0 THEN NatNorm(SubSeq(a, 1, Len(a) - 1)) ELSE a

Limb(a, i) == IF i \in DOMAIN a THEN a[i] ELSE 0

\* a natural below 2^31 as limbs, and back
NatFromInt(n) == NatNorm(<<n % LimbBase, n \div LimbBase>>)
NatFits31(a) == Len(a) < 2 \/ (Len(a) = 2 /\ a[2] < 32768)
NatToInt(a) == Limb(a, 1) + Limb(a, 2) * LimbBase

NatLess(a, b) ==
    \/ Len(a) < Len(b)
    \/ /\ Len(a) = Len(b)
       /\ \E i \in DOMAIN a : a[i] < b[i] /\ \A j \in (i + 1)..Len(a) : a[j] = b[j]

NatAdd(a, b) ==
    LET n == Max(Len(a), Len(b)) + 1
        S[i \in 0..n] ==
            IF i = 0 THEN 0 ELSE Limb(a, i) + Limb(b, i) + S[i - 1] \div LimbBase
    IN NatNorm([i \in 1..n |-> S[i] % LimbBase])

\* a - b for a >= b
NatSub(a, b) ==
    LET n == Len(a)
        D[i \in 0..n] ==
            IF i = 0 THEN LimbBase
            ELSE LimbBase + Limb(a, i) - Limb(b, i) - (IF D[i - 1] < LimbBase THEN 1 ELSE 0)
    IN NatNorm([i \in 1..n |-> D[i] % LimbBase])

\* a * k for 0 <= k < 2^15
NatMulSmall(a, k) ==
    LET n == Len(a) + 1
        P[i \in 0..n] == IF i = 0 THEN 0 ELSE Limb(a, i) * k + P[i - 1] \div LimbBase
    IN NatNorm([i \in 1..n |-> P[i] % LimbBase])

\* <<a div d, a mod d>> for 0 < d <= 2^15
NatDivModSmall(a, d) ==
    LET n == Len(a)
        R[i \in 1..(n + 1)] == IF i = n + 1 THEN 0 ELSE (R[i + 1] * LimbBase + a[i]) % d
    IN <<NatNorm([i \in 1..n |-> (R[i + 1] * LimbBase + a[i]) \div d]), R[1]>>

\* a * 2^bits and a div 2^bits
NatShl(a, bits) ==
    IF a = <<>> THEN a
    ELSE [i \in 1..(bits \div 16) |-> 0] \o NatMulSmall(a, 2 ^ (bits % 16))
NatShr(a, bits) ==
    IF bits \div 16 >= Len(a) THEN <<>>
    ELSE NatDivModSmall(SubSeq(a, bits \div 16 + 1, Len(a)), 2 ^ (bits % 16))[1]

\* the number of bits of a: the least n with a < 2^n
NatBitLen(a) ==
    IF a = <<>> THEN 0
    ELSE 16 * (Len(a) - 1) + (CHOOSE n \in 1..16 : 2 ^ (n - 1) <= a[Len(a)] /\ a[Len(a)] < 2 ^ n)

\* a div 2^bits rounded to nearest, ties to even; sticky: a value strictly
\* between a and a + 1 is being rounded
NatShrRound(a, bits, sticky) ==
    IF bits = 0 THEN a
    ELSE LET q == NatShr(a, bits)
             rem == NatSub(a, NatShl(q, bits))
             half == NatShl(<<1>>, bits - 1)
             up == \/ NatLess(half, rem)
                   \/ rem = half /\ (sticky \/ Limb(q, 1) % 2 = 1)
         IN IF up THEN NatAdd(q, <<1>>) ELSE q

RECURSIVE NatToString(_)
\* u64::to_string
NatToString(a) ==
    IF NatFits31(a) THEN ToString(NatToInt(a))
    ELSE LET qr == NatDivModSmall(a, 10000)
             low == ToString(qr[2])
         IN NatToString(qr[1]) \o SubSeq("0000", 1, 4 - Len(low)) \o low

Two63 == <<0, 0, 0, 32768>>
Two64 == <<0, 0, 0, 0, 1>>

\* an i64 / u64 as sign and magnitude
I64(neg, mag) == [neg |-> neg /\ mag # <<>>, mag |-> mag]
I64FromInt(n) == I64(n < 0, NatFromInt(Abs(n)))
i64_to_string(x) == (IF x.neg THEN "-" ELSE "") \o NatToString(x.mag)
I64ToInt(x) == IF x.neg THEN -NatToInt(x.mag) ELSE NatToInt(x.mag)
i64_fits(x) == IF x.neg THEN ~NatLess(Two63, x.mag) ELSE NatLess(x.mag, Two63)

\* i64 `*` by 0 < k < 2^15: whether the product leaves i64 (the build with
\* overflow checks panics), and the wrapped product (the build without)
mul_overflows(x, k) == ~i64_fits(I64(x.neg, NatMulSmall(x.mag, k)))
wrapping_mul(x, k) ==
    LET low == NatNorm(SubSeq(NatMulSmall(x.mag, k) \o <<0, 0, 0, 0>>, 1, 4))
        bits == IF x.neg /\ low # <<>> THEN NatSub(Two64, low) ELSE low
    IN IF NatLess(bits, Two63) THEN I64(FALSE, bits) ELSE I64(TRUE, NatSub(Two64, bits))

\* i64::div_euclid / rem_euclid for a divisor 0 < d <= 2^15
div_euclid(x, d) ==
    LET qr == NatDivModSmall(x.mag, d)
    IN IF x.neg /\ qr[2] # 0 THEN I64(TRUE, NatAdd(qr[1], <<1>>)) ELSE I64(x.neg, qr[1])
rem_euclid(x, d) ==
    LET r == NatDivModSmall(x.mag, d)[2]
    IN IF x.neg /\ r # 0 THEN d - r ELSE r

\* a finite f64 >= 0 is m * 2^e with m < 2^53 (m = 2^53 stands for 2^52 * 2)
F64(m, e) == [m |-> m, e |-> e]

\* rounding of the natural a (with sticky) to the 53 bits of a mantissa
F64Round(a, e, sticky) ==
    LET drop == Max(NatBitLen(a) - 53, 0)
    IN F64(NatShrRound(a, drop, sticky), e + drop)

\* `n as f64` for the magnitude of a u64 / i64
F64FromNat(a) == F64Round(a, 0, FALSE)

\* f64 `/`, correctly rounded, for a divisor y whose mantissa is at most 1024
F64Div(x, y) ==
    LET qr == NatDivModSmall(NatShl(x.m, 64), NatToInt(y.m))
    IN IF x.m = <<>> THEN x ELSE F64Round(qr[1], x.e - y.e - 64, qr[2] # 0)

\* f64 `>=`
F64Ge(x, y) ==
    LET e == IF x.e < y.e THEN x.e ELSE y.e
    IN ~NatLess(NatShl(x.m, x.e - e), NatShl(y.m, y.e - e))

\* format!("{:.d}", x), d = 1 or 2: the exact value rounded to d fraction
\* digits, ties to even
F64Fixed(x, d) ==
    LET scale == IF d = 1 THEN 10 ELSE 100
        n == NatMulSmall(x.m, scale)
        q == IF x.e >= 0 THEN NatShl(n, x.e) ELSE NatShrRound(n, -x.e, FALSE)
        qr == NatDivModSmall(q, scale)
        frac == ToString(qr[2])
    IN NatToString(qr[1]) \o "." \o SubSeq("00", 1, d - Len(frac)) \o frac

----------------------------------------------------------------------------
(* serde_json::Value *)

Null == [t |-> "null"]
Bool(b) == [t |-> "bool", b |-> b]
Number(n) == [t |-> "number", k |-> "int", n |-> n]
Float(m) == [t |-> "number", k |-> "float", n |-> m]
\* an integer beyond the integers of the checker, as sign and magnitude
Wide(neg, mag) == [t |-> "number", k |-> "wide", neg |-> neg, mag |-> mag]
String(s) == [t |-> "string", s |-> s]
Array(a) == [t |-> "array", a |-> a]
Object(m) == [t |-> "object", m |-> m]

is_object(v) == v.t = "object"
is_array(v) == v.t = "array"
is_number(v) == v.t = "number"
is_string(v) == v.t = "string"

is_integer(v) == v.t = "number" /\ v.k \in {"int", "wide"}
\* the integer held by a Number
integer(v) == IF v.k = "wide" THEN I64(v.neg, v.mag) ELSE I64FromInt(v.n)
\* the f64 held by a Number that is no integer, in absolute value
float(v) == F64Div(F64FromNat(NatFromInt(Abs(v.n))), F64(<<1000>>, 0))

\* Value::as_u64: Some for a non-negative integer
as_u64_some(v) == is_integer(v) /\ ~integer(v).neg
\* Value::as_i64: Some for an integer that fits i64
as_i64_some(v) == is_integer(v) /\ i64_fits(integer(v))

----------------------------------------------------------------------------
(* str helpers *)

CharAt(s, i) == SubSeq(s, i, i)

ends_with(s, suffix) ==
    /\ Len(s) >= Len(suffix)
    /\ SubSeq(s, Len(s) - Len(suffix) + 1, Len(s)) = suffix

UpperAscii == "ABCDEFGHIJKLMNOPQRSTUVWXYZ"
LowerAscii == "abcdefghijklmnopqrstuvwxyz"

\* position of the one-character string c in text, 0 when absent
IndexIn(c, text) ==
    IF \E i \in 1..Len(text) : CharAt(text, i) = c
    THEN CHOOSE i \in 1..Len(text) : CharAt(text, i) = c
    ELSE 0

\* char::to_ascii_lowercase and char::to_uppercase as tables over the letters
LowerOf == [c \in {CharAt(UpperAscii, i) : i \in 1..26} |-> CharAt(LowerAscii, IndexIn(c, UpperAscii))]
UpperOf == [c \in {CharAt(LowerAscii, i) : i \in 1..26} |-> CharAt(UpperAscii, IndexIn(c, LowerAscii))]

RECURSIVE MapChars(_, _, _)
\* s from position i on, with every character c in the domain of the table
\* replaced by the text table[c]
MapChars(table, s, i) ==
    IF i > Len(s) THEN ""
    ELSE LET c == CharAt(s, i)
         IN (IF c \in DOMAIN table THEN table[c] ELSE c) \o MapChars(table, s, i + 1)

to_ascii_lowercase(s) == MapChars(LowerOf, s, 1)
to_uppercase(s) == MapChars(UpperOf, s, 1)

\* str::replace(from, to) for a one-character pattern
replace(s, from, to) == MapChars(from :> to, s, 1)

\* str::starts_with
starts_with(s, prefix) == Len(s) >= Len(prefix) /\ SubSeq(s, 1, Len(prefix)) = prefix

\* the decimal digits, and a text made of digits only
Digits == "0123456789"

IsDigits(s) == Len(s) > 0 /\ \A i \in 1..Len(s) : IndexIn(CharAt(s, i), Digits) > 0

RECURSIVE ParseNat(_, _, _)
\* the natural number written by the digits of s from position i on, after acc
ParseNat(s, i, acc) ==
    IF i > Len(s) THEN acc
    ELSE LET n == IF Len(s) - i + 1 < 4 THEN Len(s) - i + 1 ELSE 4
             D[j \in 0..n] ==
                IF j = 0 THEN 0 ELSE D[j - 1] * 10 + IndexIn(CharAt(s, i + j - 1), Digits) - 1
         IN ParseNat(s, i + n, NatAdd(NatMulSmall(acc, 10 ^ n), NatFromInt(D[n])))

contains(s, pat) ==
    \E i \in 1..(Len(s) - Len(pat) + 1) : SubSeq(s, i, i + Len(pat) - 1) = pat

RECURSIVE join(_, _)
\* [String]::join(sep)
join(lines, sep) ==
    IF Len(lines) = 0 THEN ""
    ELSE IF Len(lines) = 1 THEN lines[1]
    ELSE lines[1] \o sep \o join(Tail(lines), sep)

RECURSIVE repeat(_, _)
\* str::repeat(n)
repeat(s, n) == IF n = 0 THEN "" ELSE s \o repeat(s, n - 1)

----------------------------------------------------------------------------
(* Secret redaction *)

is_secret_key(key) == ends_with(to_ascii_lowercase(key), "_secret")

\* the replacement of a secret string: *s = "***".into()
redact_string_prefixed(s) == "***" \o s

redact_string(s) == "***"

RECURSIVE redact_secrets(_)
redact_secrets(v) ==
    CASE v.t = "object" ->
            LET replaced == [i \in DOMAIN v.m |->
                    IF is_secret_key(v.m[i][1]) /\ is_string(v.m[i][2])
                    THEN <<v.m[i][1], String(redact_string(v.m[i][2].s))>>
                    ELSE v.m[i]]
            IN Object([i \in DOMAIN replaced |->
                    <<replaced[i][1], redact_secrets(replaced[i][2])>>])
      [] v.t = "array" -> Array([i \in DOMAIN v.a |-> redact_secrets(v.a[i])])
      [] OTHER -> v

----------------------------------------------------------------------------
(* Number formatting *)

\* {:0w} : decimal digits of n >= 0, left-padded with zeros to width w
RECURSIVE ZeroPad(_, _)
ZeroPad(text, w) == IF Len(text) >= w THEN text ELSE ZeroPad("0" \o text, w)
Pad2(n) == ZeroPad(ToString(n), 2)
Pad3(n) == ZeroPad(ToString(n), 3)
Pad4(n) == ZeroPad(ToString(n), 4)

RECURSIVE TrimZeros(_)
\* fraction digits without trailing zeros, at least one digit kept
TrimZeros(digits) ==
    IF Len(digits) > 1 /\ ends_with(digits, "0")
    THEN TrimZeros(SubSeq(digits, 1, Len(digits) - 1))
    ELSE digits

\* Number::to_string
number_to_string(v) ==
    IF v.k = "int" THEN ToString(v.n)
    ELSE IF v.k = "wide" THEN i64_to_string(integer(v))
    ELSE (IF v.n < 0 THEN "-" ELSE "")
            \o ToString(Abs(v.n) \div 1000) \o "." \o TrimZeros(Pad3(Abs(v.n) % 1000))

KB == F64(<<1024>>, 0)
MB == F64(KB.m, KB.e + 10)
GB == F64(MB.m, MB.e + 10)
TB == F64(GB.m, GB.e + 10)

\* format_bytes_human without its largest unit
format_bytes_human_no_tb(bytes) ==
    LET sign == IF bytes.neg THEN "-" ELSE ""
        b == F64FromNat(bytes.mag)
    IN IF F64Ge(b, GB) THEN sign \o F64Fixed(F64Div(b, GB), 1) \o "GB"
       ELSE IF F64Ge(b, MB) THEN sign \o F64Fixed(F64Div(b, MB), 1) \o "MB"
       ELSE IF F64Ge(b, KB) THEN sign \o F64Fixed(F64Div(b, KB), 1) \o "KB"
       ELSE i64_to_string(bytes) \o "B"

format_bytes_human(bytes) ==
    LET sign == IF bytes.neg THEN "-" ELSE ""
        b == F64FromNat(bytes.mag)
    IN IF F64Ge(b, TB) THEN sign \o F64Fixed(F64Div(b, TB), 1) \o "TB"
       ELSE IF F64Ge(b, GB) THEN sign \o F64Fixed(F64Div(b, GB), 1) \o "GB"
       ELSE IF F64Ge(b, MB) THEN sign \o F64Fixed(F64Div(b, MB), 1) \o "MB"
       ELSE IF F64Ge(b, KB) THEN sign \o F64Fixed(F64Div(b, KB), 1) \o "KB"
       ELSE i64_to_string(bytes) \o "B"

\* format_with_commas without the `i > 0` guard
format_with_commas_leading(n) ==
    LET s == NatToString(n.mag)
        F[i \in 0..Len(s)] ==
            IF i = 0 THEN ""
            ELSE F[i - 1]
                   \o (IF (Len(s) - (i - 1)) % 3 = 0 THEN "," ELSE "")
                   \o CharAt(s, i)
    IN F[Len(s)]

\* format_with_commas: a comma before every digit whose distance to the end
\* is a multiple of three, except the first
format_with_commas(n) ==
    LET s == NatToString(n.mag)
        F[i \in 0..Len(s)] ==
            IF i = 0 THEN ""
            ELSE F[i - 1]
                   \o (IF i - 1 > 0 /\ (Len(s) - (i - 1)) % 3 = 0 THEN "," ELSE "")
                   \o CharAt(s, i)
    IN F[Len(s)]

\* str::rfind for a one-character pattern: the last position, 0 for None
rfind(s, c) ==
    IF \E i \in 1..Len(s) : CharAt(s, i) = c
    THEN CHOOSE i \in 1..Len(s) : CharAt(s, i) = c /\ \A j \in (i + 1)..Len(s) : CharAt(s, j) # c
    ELSE 0

\* extract_currency_code: <<TRUE, code>> for Some(code), <<FALSE, "">> for None
extract_currency_code(key) ==
    IF ~ends_with(key, "_cents") THEN <<FALSE, "">>
    ELSE LET without_cents == SubSeq(key, 1, Len(key) - 6)
             last_underscore == rfind(without_cents, "_")
         IN IF last_underscore = 0 THEN <<FALSE, "">>
            ELSE <<TRUE, SubSeq(without_cents, last_underscore + 1, Len(without_cents))>>

\* chrono: civil date of a day count since 1970-01-01
CivilFromDays(days) ==
    LET z == days + 719468
        era == (IF z >= 0 THEN z ELSE z - 146096) \div 146097
        doe == z - era * 146097
        yoe == (doe - doe \div 1460 + doe \div 36524 - doe \div 146096) \div 365
        doy == doe - (365 * yoe + yoe \div 4 - yoe \div 100)
        mp == (5 * doy + 2) \div 153
        d == doy - (153 * mp + 2) \div 5 + 1
        m == IF mp < 10 THEN mp + 3 ELSE mp - 9
        y == yoe + era * 400 + (IF m <= 2 THEN 1 ELSE 0)
    IN [year |-> y, month |-> m, day |-> d]

\* the days since 1970-01-01 of a second count: secs.div_euclid(86_400)
DaysOf(secs) == div_euclid(div_euclid(secs, 100), 864)

\* chrono: DateTime::from_timestamp is Some when the day is one of NaiveDate
from_timestamp_some(secs) ==
    /\ NatLess(DaysOf(secs).mag, <<0, 2048>>)
    /\ CivilFromDays(I64ToInt(DaysOf(secs))).year \in (-262143)..262142

\* format_rfc3339_ms: unix milliseconds to RFC 3339, UTC, millisecond
\* precision; the raw number when chrono has no such instant
format_rfc3339_ms(ms) ==
    LET secs == div_euclid(ms, 1000)
        millis == rem_euclid(ms, 1000)
        sod == rem_euclid(div_euclid(secs, 100), 864) * 100 + rem_euclid(secs, 100)
        date == CivilFromDays(I64ToInt(DaysOf(secs)))
        year == IF date.year \in 0..9999 THEN Pad4(date.year)
                ELSE (IF date.year < 0 THEN "-" ELSE "+") \o Pad4(Abs(date.year))
    IN IF from_timestamp_some(secs)
       THEN year \o "-" \o Pad2(date.month) \o "-" \o Pad2(date.day)
              \o "T" \o Pad2(sod \div 3600) \o ":" \o Pad2((sod % 3600) \div 60)
              \o ":" \o Pad2(sod % 60) \o "." \o Pad3(millis) \o "Z"
       ELSE i64_to_string(ms)

----------------------------------------------------------------------------
(* Compact JSON: serde_json::to_string and Value's Display *)

\* the two-character escapes of serde_json's string encoder
json_escapes ==
    ("\"" :> "\\\"") @@ ("\\" :> "\\\\") @@ ("\n" :> "\\n") @@ ("\r" :> "\\r")
        @@ ("\t" :> "\\t")

json_string(s) == "\"" \o MapChars(json_escapes, s, 1) \o "\""

RECURSIVE to_json(_)
to_json(v) ==
    CASE v.t = "null" -> "null"
      [] v.t = "bool" -> IF v.b THEN "true" ELSE "false"
      [] v.t = "number" -> number_to_string(v)
      [] v.t = "string" -> json_string(v.s)
      [] v.t = "array" ->
            "[" \o join([i \in DOMAIN v.a |-> to_json(v.a[i])], ",") \o "]"
      [] v.t = "object" ->
            "{" \o join([i \in DOMAIN v.m |->
                          json_string(v.m[i][1]) \o ":" \o to_json(v.m[i][2])], ",")
                \o "}"

----------------------------------------------------------------------------
(* Scalars *)

\* Plain scalar: no quotes, raw value
plain_scalar(v) ==
    CASE v.t = "string" -> v.s
      [] v.t = "null" -> "null"
      [] v.t = "bool" -> IF v.b THEN "true" ELSE "false"
      [] v.t = "number" -> number_to_string(v)
      [] OTHER -> to_json(v)

\* yaml_scalar with the backslash escaped last instead of first
yaml_scalar_backslash_last(v) ==
    CASE v.t = "string" ->
            "\"" \o replace(replace(replace(replace(replace(v.s,
                        "\"", "\\\""), "\n", "\\n"), "\r", "\\r"), "\t", "\\t"), "\\", "\\\\")
                 \o "\""
      [] v.t = "null" -> "null"
      [] v.t = "bool" -> IF v.b THEN "true" ELSE "false"
      [] v.t = "number" -> number_to_string(v)
      [] OTHER -> "\"" \o replace(to_json(v), "\"", "\\\"") \o "\""

yaml_scalar(v) ==
    CASE v.t = "string" ->
            "\"" \o replace(replace(replace(replace(replace(v.s,
                        "\\", "\\\\"), "\"", "\\\""), "\n", "\\n"), "\r", "\\r"), "\t", "\\t")
                 \o "\""
      [] v.t = "null" -> "null"
      [] v.t = "bool" -> IF v.b THEN "true" ELSE "false"
      [] v.t = "number" -> number_to_string(v)
      [] OTHER -> "\"" \o replace(to_json(v), "\"", "\\\"") \o "\""

----------------------------------------------------------------------------
(* Suffix-driven formatting of one scalar field *)

\* a key that ends in `_ms` whatever precedes it
is_ms_key_any(lower) == ends_with(lower, "_ms")

\* lower.ends_with("_ms") && !lower.ends_with("_epoch_ms")
is_ms_key(lower) == ends_with(lower, "_ms") /\ ~ends_with(lower, "_epoch_ms")

\* the `_ms` rule for a value that is a number
format_ms(v) ==
    LET thousand == F64(<<1000>>, 0)
    IN IF as_u64_some(v)
       THEN (IF ~NatLess(integer(v).mag, <<1000>>)
             THEN F64Fixed(F64Div(F64FromNat(integer(v).mag), thousand), 2) \o "s"
             ELSE NatToString(integer(v).mag) \o "ms")
       ELSE IF v.k = "float" /\ v.n > 0 /\ F64Ge(float(v), thousand)
            THEN F64Fixed(F64Div(float(v), thousand), 2) \o "s"
            ELSE plain_scalar(v) \o "ms"

\* format!("{symbol}{}.{:02}", n / 100, n % 100)
cents(symbol, n) ==
    symbol \o NatToString(NatDivModSmall(n.mag, 100)[1]) \o "."
        \o Pad2(NatDivModSmall(n.mag, 100)[2])

\* `s * 1000` on i64 overflows: the multiplication of the `_epoch_s` rule
epoch_s_overflows(key, v) ==
    LET lower == to_ascii_lowercase(key)
    IN /\ ~ends_with(lower, "_secret")
       /\ ~ends_with(lower, "_epoch_ms")
       /\ ends_with(lower, "_epoch_s")
       /\ as_i64_some(v)
       /\ mul_overflows(integer(v), 1000)

\* format_plain_field with the generic rules tried before the compound ones
format_plain_field_generic_first(key, v) ==
    LET lower == to_ascii_lowercase(key)
        code == extract_currency_code(lower)
    IN  IF ends_with(lower, "_secret") THEN "***"
        ELSE IF ends_with(lower, "_ms") /\ is_number(v) THEN format_ms(v)
        ELSE IF ends_with(lower, "_ns") /\ is_number(v) THEN plain_scalar(v) \o "ns"
        ELSE IF ends_with(lower, "_s") /\ is_number(v) THEN plain_scalar(v) \o "s"
        ELSE IF ends_with(lower, "_sats") /\ is_number(v) THEN plain_scalar(v) \o "sats"
        ELSE IF ends_with(lower, "_cents") /\ code[1] /\ as_u64_some(v)
            THEN cents("", integer(v)) \o " " \o to_uppercase(code[2])
        ELSE plain_scalar(v)

format_plain_field(key, v) ==
    LET lower == to_ascii_lowercase(key)
        code == extract_currency_code(lower)
    IN  \* Secret: always redact
        IF ends_with(lower, "_secret") THEN "***"
        \* Timestamps
        ELSE IF ends_with(lower, "_epoch_ms") /\ as_i64_some(v)
            THEN format_rfc3339_ms(integer(v))
        ELSE IF ends_with(lower, "_epoch_s") /\ as_i64_some(v)
            THEN format_rfc3339_ms(wrapping_mul(integer(v), 1000))
        ELSE IF ends_with(lower, "_epoch_ns") /\ as_i64_some(v)
            THEN format_rfc3339_ms(div_euclid(div_euclid(integer(v), 1000), 1000))
        ELSE IF ends_with(lower, "_rfc3339") THEN plain_scalar(v)
        \* Size
        ELSE IF ends_with(lower, "_bytes") /\ as_i64_some(v)
            THEN format_bytes_human(integer(v))
        \* Percentage
        ELSE IF ends_with(lower, "_percent") /\ is_number(v)
            THEN plain_scalar(v) \o "%"
        \* Currency: Bitcoin
        ELSE IF ends_with(lower, "_msats") /\ is_number(v)
            THEN plain_scalar(v) \o "msats"
        ELSE IF ends_with(lower, "_sats") /\ is_number(v)
            THEN plain_scalar(v) \o "sats"
        ELSE IF ends_with(lower, "_btc") /\ is_number(v)
            THEN plain_scalar(v) \o " BTC"
        \* Currency: fiat with symbol
        ELSE IF ends_with(lower, "_usd_cents") /\ as_u64_some(v)
            THEN cents("$", integer(v))
        ELSE IF ends_with(lower, "_eur_cents") /\ as_u64_some(v)
            THEN cents("€", integer(v))
        ELSE IF ends_with(lower, "_jpy") /\ as_u64_some(v)
            THEN "¥" \o format_with_commas(integer(v))
        \* Currency: generic _{code}_cents
        ELSE IF ends_with(lower, "_cents") /\ code[1] /\ as_u64_some(v)
            THEN cents("", integer(v)) \o " " \o to_uppercase(code[2])
        \* Duration: long units
        ELSE IF ends_with(lower, "_minutes") /\ is_number(v)
            THEN plain_scalar(v) \o " minutes"
        ELSE IF ends_with(lower, "_hours") /\ is_number(v)
            THEN plain_scalar(v) \o " hours"
        ELSE IF ends_with(lower, "_days") /\ is_number(v)
            THEN plain_scalar(v) \o " days"
        \* Duration: ms
        ELSE IF is_ms_key(lower) /\ is_number(v)
            THEN format_ms(v)
        \* Duration: ns, us, s
        ELSE IF ends_with(lower, "_ns") /\ ~ends_with(lower, "_epoch_ns") /\ is_number(v)
            THEN plain_scalar(v) \o "ns"
        ELSE IF ends_with(lower, "_us") /\ is_number(v)
            THEN plain_scalar(v) \o "μs"
        ELSE IF ends_with(lower, "_s") /\ ~ends_with(lower, "_epoch_s") /\ is_number(v)
            THEN plain_scalar(v) \o "s"
        \* Default: no transformation
        ELSE plain_scalar(v)

----------------------------------------------------------------------------
(* Key order: UTF-16 code units (JCS, RFC 8785) *)

\* the ASCII characters 32..95 and 97..126 in code order
AsciiLow == " !\"#$%&'(" \o ")*+,-./0123456789:;<=>?@ABCDEFGHIJKLMNOPQRSTUVWXYZ[\\]^_"
AsciiHigh == "abcdefghijklmnopqrstuvwxyz{|}~"

\* the UTF-16 code unit of an ASCII character (the explored keys are ASCII)
CodeUnit ==
    [c \in {CharAt(AsciiLow, i) : i \in 1..Len(AsciiLow)} |-> 31 + IndexIn(c, AsciiLow)]
        @@ [c \in {CharAt(AsciiHigh, i) : i \in 1..Len(AsciiHigh)} |-> 96 + IndexIn(c, AsciiHigh)]

\* str::encode_utf16
encode_utf16(s) == [i \in 1..Len(s) |-> CodeUnit[CharAt(s, i)]]

\* Iterator::cmp on two code unit sequences is Ordering::Less
cmp_less(a, b) ==
    \E i \in 1..Len(b) :
        /\ i - 1 <= Len(a)
        /\ \A j \in 1..(i - 1) : a[j] = b[j]
        /\ (i > Len(a) \/ a[i] < b[i])

\* the entries of a map in the iteration order of the map
jcs_unsorted(map) == map

\* jcs_sorted: the entries of a map in ascending code unit order of their keys
jcs_sorted(map) ==
    LET units == [i \in DOMAIN map |-> encode_utf16(map[i][1])]
        rank == [i \in DOMAIN map |->
                    Cardinality({j \in DOMAIN map : cmp_less(units[j], units[i])})]
    IN [r \in DOMAIN map |-> map[CHOOSE i \in DOMAIN map : rank[i] = r - 1]]

----------------------------------------------------------------------------
(* Renderers *)

RECURSIVE Flatten(_)
\* the concatenation of a sequence of line sequences
Flatten(seqs) == IF Len(seqs) = 0 THEN <<>> ELSE Head(seqs) \o Flatten(Tail(seqs))

\* format!("{}{}:", prefix, k)
key_line(prefix, k) == prefix \o k \o ":"
\* a field line that shows the key without its `_ms` or `_s` suffix
field_line_stripped(prefix, k, text) ==
    prefix
        \o (IF ends_with(k, "_ms") THEN SubSeq(k, 1, Len(k) - 3)
            ELSE IF ends_with(k, "_s") THEN SubSeq(k, 1, Len(k) - 2)
            ELSE k)
        \o ": " \o text

\* format!("{}{}: {}", prefix, k, text)
field_line(prefix, k, text) == prefix \o k \o ": " \o text
\* format!("{}  - {}", prefix, text)
item_line(prefix, text) == prefix \o "  - " \o text

RECURSIVE render_yaml(_, _)
\* the lines render_yaml pushes for v at the given indent
render_yaml(v, indent) ==
    LET prefix == repeat("  ", indent)
        item(x) ==
            IF is_object(x) THEN <<prefix \o "  -">> \o render_yaml(x, indent + 2)
            ELSE <<item_line(prefix, yaml_scalar(x))>>
        field(e) ==
            LET k == e[1]
                w == e[2]
            IN IF is_object(w) /\ Len(w.m) > 0
                   THEN <<key_line(prefix, k)>> \o render_yaml(w, indent + 1)
               ELSE IF is_object(w) THEN <<field_line(prefix, k, "{}")>>
               ELSE IF is_array(w)
                   THEN (IF Len(w.a) = 0 THEN <<field_line(prefix, k, "[]")>>
                         ELSE <<key_line(prefix, k)>>
                                \o Flatten([i \in DOMAIN w.a |-> item(w.a[i])]))
               ELSE <<field_line(prefix, k, yaml_scalar(w))>>
    IN IF is_object(v)
       THEN LET sorted == jcs_sorted(v.m)
            IN Flatten([i \in DOMAIN sorted |-> field(sorted[i])])
       ELSE <<prefix \o yaml_scalar(v)>>

to_yaml(v) == join(<<"---">> \o render_yaml(v, 0), "\n")

RECURSIVE render_plain(_, _)
\* the lines render_plain pushes for v at the given indent
render_plain(v, indent) ==
    LET prefix == repeat("  ", indent)
        item(x) ==
            IF is_object(x) THEN <<prefix \o "  -">> \o render_plain(x, indent + 2)
            ELSE <<item_line(prefix, plain_scalar(x))>>
        field(e) ==
            LET k == e[1]
                w == e[2]
            IN IF is_object(w)
                   THEN <<key_line(prefix, k)>> \o render_plain(w, indent + 1)
               ELSE IF is_array(w)
                   THEN (IF Len(w.a) = 0 THEN <<field_line(prefix, k, "[]")>>
                         ELSE IF \A i \in DOMAIN w.a : ~is_object(w.a[i]) /\ ~is_array(w.a[i])
                             THEN <<key_line(prefix, k)>>
                                    \o [i \in DOMAIN w.a |-> item_line(prefix, plain_scalar(w.a[i]))]
                         ELSE <<key_line(prefix, k)>>
                                \o Flatten([i \in DOMAIN w.a |-> item(w.a[i])]))
               ELSE <<field_line(prefix, k, format_plain_field(k, w))>>
    IN IF is_object(v)
       THEN LET sorted == jcs_sorted(v.m)
            IN Flatten([i \in DOMAIN sorted |-> field(sorted[i])])
       ELSE <<prefix \o plain_scalar(v)>>

to_plain(v) == join(render_plain(v, 0), "\n")

RECURSIVE render_plain_overflows(_)
\* render_plain reaches a field whose `s * 1000` overflows
render_plain_overflows(v) ==
    /\ is_object(v)
    /\ \E i \in DOMAIN v.m :
          LET k == v.m[i][1]
              w == v.m[i][2]
          IN IF is_object(w) THEN render_plain_overflows(w)
             ELSE IF is_array(w)
                 THEN \E j \in DOMAIN w.a : is_object(w.a[j]) /\ render_plain_overflows(w.a[j])
             ELSE epoch_s_overflows(k, w)

\* OutputFormat::format with the compact encoding formatted like the lines
format_display(fmt, v) == IF fmt = "yaml" THEN to_yaml(v) ELSE to_plain(v)

\* OutputFormat::format
format(fmt, v) ==
    CASE fmt = "json" -> to_json(v)
      [] fmt = "yaml" -> to_yaml(v)
      [] fmt = "plain" -> to_plain(v)

----------------------------------------------------------------------------
(* The explored inputs *)

\* keys of the single-field objects: every suffix rule, in lower, upper and
\* mixed case, and keys without a suffix
RuleKeys ==
    { "name", "api_key_secret", "API_KEY_SECRET", "api_key_Secret",
      "latency_ms", "latency_Ms", "created_epoch_ms", "created_epoch_s",
      "created_epoch_ns", "expires_rfc3339", "size_bytes", "cpu_percent",
      "cost_msats", "cost_sats", "reserve_btc", "refund_usd_cents",
      "refund_eur_cents", "refund_jpy", "fare_thb_cents", "x__cents", "_cents",
      "timeout_minutes", "timeout_hours", "timeout_days", "elapsed_ns",
      "elapsed_us", "dns_ttl_s", "CACHE_TTL_S" }

\* i64::MAX, i64::MIN and u64::MAX
I64_MAX == Wide(FALSE, NatSub(Two63, <<1>>))
I64_MIN == Wide(TRUE, Two63)
U64_MAX == Wide(FALSE, NatSub(Two64, <<1>>))

RuleScalars ==
    { Null, Bool(TRUE), Number(0), Number(42), Number(1280), Number(-499),
      I64_MAX, I64_MIN, U64_MAX,
      Float(500), Float(1500500), String("sk-123"), String("unknown"),
      String("***") }

\* keys and values of the multi-field objects
MultiKeys == {"response_ms", "response_s", "response_ms_s", "ZONE"}
MultiScalars == {Number(150)}

ArrayScalars == {Number(1024), String("sk-123"), Null}

RECURSIVE Entries(_, _, _)
\* the entry lists of at most n entries, keys pairwise distinct, in any order
Entries(keys, vals, n) ==
    IF n = 0 THEN {<<>>}
    ELSE LET shorter == Entries(keys, vals, n - 1)
             longest == {m \in shorter : Len(m) = n - 1}
             fresh(m) == {k \in keys : \A i \in DOMAIN m : m[i][1] # k}
         IN shorter \cup
            UNION {{Append(m, <<k, w>>) : k \in fresh(m), w \in vals} : m \in longest}

RECURSIVE Arrays(_, _)
\* the element lists of at most n elements
Arrays(vals, n) ==
    IF n = 0 THEN {<<>>}
    ELSE LET shorter == Arrays(vals, n - 1)
         IN shorter \cup
            {Append(a, w) : a \in {x \in shorter : Len(x) = n - 1}, w \in vals}

\* keys of the single-field objects that are also explored inside containers
InnerKeys == {"name", "api_key_secret", "API_KEY_SECRET", "api_key_Secret"}

\* the trees explored inside containers
InnerTrees ==
    {Object(m) : m \in Entries(InnerKeys, RuleScalars, 1)}
        \cup {Object(m) : m \in Entries(MultiKeys, MultiScalars, MaxFields)}
        \cup {Array(a) : a \in Arrays(ArrayScalars, MaxArrayLen)}
        \cup {String("sk-123"), Number(42)}

\* keys and values of the objects nested under a key that is no secret key
PathKeys == {"count", "duration_ms"}
PathScalars == {Number(3), Number(12)}

\* an object with a scalar field and a nested object, entered in either order
PathTrees ==
    UNION {{ Object(<< <<"code", String("ok")>>, <<"trace", Object(m)>> >>),
             Object(<< <<"trace", Object(m)>>, <<"code", String("ok")>> >>) }
           : m \in Entries(PathKeys, PathScalars, 2)}

\* keys of the fields that hold an array of scalars: one with the suffix of a
\* rule and one without
ArrayKeys == {"sizes_bytes", "fields"}
ArrayTrees ==
    {Object(<< <<k, Array(a)>> >>) : k \in ArrayKeys, a \in Arrays(ArrayScalars, MaxArrayLen)}

BaseTrees ==
    InnerTrees \cup PathTrees \cup ArrayTrees
        \cup {Object(m) : m \in Entries(RuleKeys, RuleScalars, 1)}

\* a tree nested in a container: under a secret key next to a sibling entered
\* first, and in an array under a plain key
Wrap(b) ==
    { Object(<< <<"zone", Number(1)>>, <<"outer_secret", b>> >>),
      Object(<< <<"items", Array(<<b, String("sk-123")>>)>> >>) }

RECURSIVE Nested(_)
\* the inner trees inside exactly d containers
Nested(d) == IF d = 0 THEN InnerTrees ELSE UNION {Wrap(b) : b \in Nested(d - 1)}

Trees == BaseTrees \cup UNION {Nested(d) : d \in 1..MaxDepth}

----------------------------------------------------------------------------
(* The free-standing helpers: the status builder and the size parser *)

\* Option: Some(x) and None
Some(x) == <<TRUE, x>>
None == <<FALSE, <<>>>>

\* serde_json::Map::insert: the value of a present key is replaced in place, a
\* new key is added (at the end in the order of insertion; a sorted map puts
\* it elsewhere, and nothing below reads the position)
map_insert(m, k, v) ==
    IF \E i \in DOMAIN m : m[i][1] = k
    THEN [i \in DOMAIN m |-> IF m[i][1] = k THEN <<k, v>> ELSE m[i]]
    ELSE Append(m, <<k, v>>)

\* status with a `code` of the fields kept
status_keeps_code(code, fields) ==
    LET obj == IF is_object(fields) THEN fields.m ELSE <<>>
    IN IF \E i \in DOMAIN obj : obj[i][1] = "code" THEN Object(obj)
       ELSE Object(map_insert(obj, "code", String(code)))

\* status(code, fields)
status(code, fields) ==
    LET obj == IF is_object(fields) THEN fields.m ELSE <<>>
    IN Object(map_insert(obj, "code", String(code)))

\* str::trim over the white space of the explored texts
Whitespace == {" ", "\t", "\n", "\r"}
trim(s) ==
    IF \A i \in 1..Len(s) : CharAt(s, i) \in Whitespace THEN ""
    ELSE LET first == CHOOSE i \in 1..Len(s) :
                        CharAt(s, i) \notin Whitespace /\ \A j \in 1..(i - 1) : CharAt(s, j) \in Whitespace
             last == CHOOSE i \in 1..Len(s) :
                        CharAt(s, i) \notin Whitespace /\ \A j \in (i + 1)..Len(s) : CharAt(s, j) \in Whitespace
         IN SubSeq(s, first, last)

\* str::parse::<u64>: an optional `+` and then digits only, the number below
\* 2^64
parse_u64(s) ==
    LET digits == IF starts_with(s, "+") THEN SubSeq(s, 2, Len(s)) ELSE s
        n == ParseNat(digits, 1, <<>>)
    IN IF IsDigits(digits) /\ NatLess(n, Two64) THEN Some(n) ELSE None

RECURSIVE DivPowerOfTen(_, _)
\* <<a div 10^d, whether a remainder was dropped>>
DivPowerOfTen(a, d) ==
    IF d <= 4 THEN <<NatDivModSmall(a, 10 ^ d)[1], NatDivModSmall(a, 10 ^ d)[2] # 0>>
    ELSE LET qr == NatDivModSmall(a, 10000)
             rest == DivPowerOfTen(qr[1], d - 4)
         IN <<rest[1], rest[2] \/ qr[2] # 0>>

\* str::parse::<f64> for a text without exponent: an optional sign, then inf,
\* infinity or nan in any case, or digits around at most one point with a
\* digit on one side at least; the decimal number is rounded to nearest.
\* Some of [kind, neg, mag]: kind is "finite", "inf" or "nan"
parse_f64(s) ==
    LET signed == starts_with(s, "+") \/ starts_with(s, "-")
        body == IF signed THEN SubSeq(s, 2, Len(s)) ELSE s
        neg == starts_with(s, "-")
        point == rfind(body, ".")
        whole == IF point = 0 THEN body ELSE SubSeq(body, 1, point - 1)
        frac == IF point = 0 THEN "" ELSE SubSeq(body, point + 1, Len(body))
        shift == 64 + 4 * Len(frac)
        qr == DivPowerOfTen(NatShl(ParseNat(whole \o frac, 1, <<>>), shift), Len(frac))
    IN IF to_ascii_lowercase(body) \in {"inf", "infinity"}
            THEN Some([kind |-> "inf", neg |-> neg, mag |-> F64(<<>>, 0)])
       ELSE IF to_ascii_lowercase(body) = "nan"
            THEN Some([kind |-> "nan", neg |-> neg, mag |-> F64(<<>>, 0)])
       ELSE IF /\ whole \o frac # ""
               /\ \A i \in 1..Len(whole \o frac) : IndexIn(CharAt(whole \o frac, i), Digits) > 0
            THEN Some([kind |-> "finite", neg |-> neg, mag |-> F64Round(qr[1], -shift, qr[2])])
       ELSE None

\* `result as u64` for a finite result >= 0: truncated, and saturated at
\* u64::MAX
f64_as_u64(x) ==
    LET n == IF x.e >= 0 THEN NatShl(x.m, x.e) ELSE NatShr(x.m, -x.e)
    IN IF NatLess(n, Two64) THEN n ELSE NatSub(Two64, <<1>>)

\* the binary exponent of the multiplier of a unit letter, -1 for a last
\* character that is neither a unit, a digit nor a point
UnitLetters == "BbKkMmGgTt"
unit_shift(last) ==
    IF IndexIn(last, UnitLetters) > 0 THEN 10 * ((IndexIn(last, UnitLetters) - 1) \div 2)
    ELSE IF IndexIn(last, Digits) > 0 \/ last = "." THEN 0
    ELSE -1

\* parse_size(s): Some(bytes) or None
parse_size(text) ==
    LET s == trim(text)
        last == CharAt(s, Len(s))
        num_str == IF IndexIn(last, UnitLetters) > 0 THEN SubSeq(s, 1, Len(s) - 1) ELSE s
        shift == unit_shift(last)
        f == parse_f64(num_str)
        \* f * mult as f64: the multiplier is a power of two
        result == F64(f[2].mag.m, f[2].mag.e + shift)
    IN IF s = "" \/ shift < 0 \/ num_str = "" THEN None
       \* num_str.parse::<u64>() and n.checked_mul(mult)
       ELSE IF parse_u64(num_str)[1]
            THEN LET product == NatShl(parse_u64(num_str)[2], shift)
                 IN IF NatLess(product, Two64) THEN Some(product) ELSE None
       ELSE IF ~f[1] THEN None
       \* f < 0.0 || f.is_nan() || f.is_infinite(): -0.0 is not below 0.0
       ELSE IF f[2].kind # "finite" \/ (f[2].neg /\ f[2].mag.m # <<>>) THEN None
       \* result > u64::MAX as f64, which is 2^64
       ELSE IF ~F64Ge(F64(<<1>>, 64), result) THEN None
       ELSE Some(f64_as_u64(result))

\* no helper was called yet
NoCall == [fn |-> "none"]

----------------------------------------------------------------------------
(* The tracing layer: threads, spans and the stdout lock *)

Threads == {"main", "worker"}

\* Level, and the default code of on_event
Levels == {"TRACE", "DEBUG", "INFO", "WARN", "ERROR"}
default_code(level) ==
    CASE level = "TRACE" -> "trace"
      [] level = "DEBUG" -> "debug"
      [] level = "INFO" -> "info"
      [] level = "WARN" -> "warn"
      [] level = "ERROR" -> "error"

\* JsonVisitor over recorded <<name, value>> pairs: a string or Debug value
\* named `message` goes to `message` (the last one stays), every other value
\* is pushed to `fields`; record_i64, record_u64, record_f64 and record_bool
\* push a field named `message` like any other
JsonVisitor(recorded) ==
    LET is_message(f) == f[1] = "message" /\ is_string(f[2])
        messages == SelectSeq(recorded, is_message)
    IN [message |-> IF messages = <<>> THEN None ELSE Some(messages[Len(messages)][2].s),
        fields |-> SelectSeq(recorded, LAMBDA f : ~is_message(f))]

RECURSIVE from_root(_, _)
\* scope.from_root(): the span and its ancestors, the root first
from_root(registry, id) ==
    IF id = 0 THEN <<>> ELSE Append(from_root(registry, registry[id].parent), id)

RECURSIVE insert_all(_, _, _)
\* map.insert(k, v) for the pairs of a Vec from position i on
insert_all(map, fields, i) ==
    IF i > Len(fields) THEN map
    ELSE insert_all(map_insert(map, fields[i][1], fields[i][2]), fields, i + 1)

RECURSIVE insert_scope(_, _, _, _)
\* the span fields of a scope, root to leaf, inserted from position i on
insert_scope(map, registry, scope, i) ==
    IF i > Len(scope) THEN map
    ELSE insert_scope(insert_all(map, registry[scope[i]].fields, 1), registry, scope, i + 1)

\* on_event with `code` defaulted only when the map holds none
on_event_value_unless_present(registry, scope_leaf, level, target, recorded, now) ==
    LET visitor == JsonVisitor(recorded)
        stamped == map_insert(<<>>, "timestamp_epoch_ms", Number(now))
        with_message == IF visitor.message[1]
                        THEN map_insert(stamped, "message", String(visitor.message[2]))
                        ELSE stamped
        with_target == map_insert(with_message, "target", String(target))
        with_spans == insert_scope(with_target, registry, from_root(registry, scope_leaf), 1)
        with_fields == insert_all(with_spans, visitor.fields, 1)
        has_code == \E i \in DOMAIN with_fields : with_fields[i][1] = "code"
    IN Object(IF has_code THEN with_fields
              ELSE map_insert(with_fields, "code", String(default_code(level))))

\* on_event: the object built for an event (`value`)
on_event_value(registry, scope_leaf, level, target, recorded, now) ==
    LET visitor == JsonVisitor(recorded)
        stamped == map_insert(<<>>, "timestamp_epoch_ms", Number(now))
        with_message == IF visitor.message[1]
                        THEN map_insert(stamped, "message", String(visitor.message[2]))
                        ELSE stamped
        with_target == map_insert(with_message, "target", String(target))
        with_spans == insert_scope(with_target, registry, from_root(registry, scope_leaf), 1)
        with_fields == insert_all(with_spans, visitor.fields, 1)
        has_code == \E i \in DOMAIN visitor.fields : visitor.fields[i][1] = "code"
    IN Object(IF has_code THEN with_fields
              ELSE map_insert(with_fields, "code", String(default_code(level))))

\* the bytes written for an event: the line rendered from its object, which
\* stands here for its text, and the line break
Line(v) == <<"line", v>>
Newline == <<"\n">>

\* io::stdout().lock() on a lock another writer may hold
stdout_lock_unguarded(holder) == TRUE

\* io::stdout().lock() returns when no other writer holds the lock
stdout_lock(holder) == holder = "free"

\* no span created, no event in flight, stdout unlocked and empty
LayerIdle ==
    /\ spans = <<>>
    /\ current = [t \in Threads |-> 0]
    /\ pc = [t \in Threads |-> "idle"]
    /\ event = [t \in Threads |-> Null]
    /\ lock = "free"
    /\ sink = <<>>

----------------------------------------------------------------------------
(* The caller: builds a tree, then redacts it or renders it *)

Formats == {"json", "yaml", "plain"}

Init ==
    /\ orig \in Trees
    /\ value = orig
    /\ op = "new"
    /\ out = ""
    /\ call = NoCall
    /\ LayerIdle

\* redact_secrets(&mut value)
RedactSecrets ==
    /\ op # "panic"
    /\ value' = redact_secrets(value)
    /\ op' = "redact"
    /\ out' = ""
    /\ UNCHANGED <<orig, call, layer>>

\* a render call that redacts the caller's tree itself, not a clone of it
FormatInPlace(fmt) ==
    /\ op # "panic"
    /\ value' = redact_secrets(value)
    /\ out' = format(fmt, value')
    /\ op' = fmt
    /\ UNCHANGED <<orig, call, layer>>

\* out = OutputFormat::format(&value); an overflowing `s * 1000` wraps in a
\* build without overflow checks
Format(fmt) ==
    /\ op # "panic"
    /\ out' = format(fmt, value)
    /\ op' = fmt
    /\ UNCHANGED <<orig, value, call, layer>>

\* OutputFormat::Plain.format(&value) in a build with overflow checks: the
\* overflowing `s * 1000` panics with "attempt to multiply with overflow"
FormatPanics ==
    /\ op # "panic"
    /\ render_plain_overflows(value)
    /\ op' = "panic"
    /\ out' = ""
    /\ UNCHANGED <<orig, value, call, layer>>

Next ==
    \/ RedactSecrets
    \/ \E fmt \in Formats : Format(fmt)
    \/ FormatPanics

Spec == Init /\ [][Next]_vars

----------------------------------------------------------------------------
(* One numeric field: the duration and size rules over ranges of integers *)

MaxMs == 2000       \* |n| of the explored `_ms` integers
MaxBytes == 1100    \* |n| of the explored `_bytes` integers below the wide ones
MaxUnit == 6        \* the wide sizes reach 1024^MaxUnit

DurationValues == {Number(n) : n \in (-MaxMs)..MaxMs}

\* the whole units and the 1024ths of a unit of the wide sizes: the least and
\* the greatest, and the 1024ths that put the tenths on a tie
SizeUnits == {1, 5, 446, 1023}
SizeParts == {0, 1, 85, 256, 512, 768, 1023}

\* a size above 2^53 that `bytes as f64` rounds down onto a tie of the tenths
RoundedOntoTie == NatAdd(NatShl(NatFromInt(32785), 38), <<1>>)

\* sizes from 1024 up to i64: around every unit, exact multiples, ties
SizeMagnitudes ==
    { mag \in UNION {{ NatSub(NatShl(<<1>>, 10 * j), <<1>>) }
                        \cup { NatAdd(NatShl(NatFromInt(u), 10 * j),
                                      NatShl(NatFromInt(p), 10 * (j - 1)))
                               : u \in SizeUnits, p \in SizeParts }
                     : j \in 1..MaxUnit} \cup {RoundedOntoTie} :
        i64_fits(I64(FALSE, mag)) }

SizeValues ==
    {Number(n) : n \in (-MaxBytes)..MaxBytes}
        \cup {Wide(neg, mag) : neg \in BOOLEAN, mag \in SizeMagnitudes}
        \cup {I64_MAX, I64_MIN}

\* the amounts in yen: every small one, and next to every power of ten up to
\* u64::MAX, where the number of digit groups changes
MaxYen == 1100
MaxPowerOfTen == 19
RECURSIVE PowerOfTen(_)
PowerOfTen(k) == IF k = 0 THEN <<1>> ELSE NatMulSmall(PowerOfTen(k - 1), 10)
PowersOfTen == {mag \in {PowerOfTen(k) : k \in 4..MaxPowerOfTen} : NatLess(mag, Two64)}
Amount(mag) == IF NatFits31(mag) THEN Number(NatToInt(mag)) ELSE Wide(FALSE, mag)
YenValues ==
    {Number(n) : n \in 0..MaxYen}
        \cup {Amount(NatSub(mag, <<1>>)) : mag \in PowersOfTen}
        \cup {Amount(mag) : mag \in PowersOfTen}
        \cup {U64_MAX, Number(-1), Float(1500500), String("1500")}

\* the strings of at most MaxStrLen characters over a letter and the five
\* characters yaml_scalar escapes
MaxStrLen == 3
EscapedChars == {"a", "\\", "\"", "\n", "\r", "\t"}
RECURSIVE Strings(_)
Strings(n) ==
    IF n = 0 THEN {""}
    ELSE LET shorter == Strings(n - 1)
         IN shorter \cup {s \o c : s \in {x \in shorter : Len(x) = n - 1}, c \in EscapedChars}
StringValues == {String(s) : s \in Strings(MaxStrLen)}

FieldTrees ==
    {Object(<< <<"latency_ms", v>> >>) : v \in DurationValues}
        \cup {Object(<< <<"name", v>> >>) : v \in StringValues}
        \cup {Object(<< <<"size_bytes", v>> >>) : v \in SizeValues}
        \cup {Object(<< <<"refund_jpy", v>> >>) : v \in YenValues}

FieldInit ==
    /\ orig \in FieldTrees
    /\ value = orig
    /\ op = "new"
    /\ out = ""
    /\ call = NoCall
    /\ LayerIdle

FieldNext == Format("plain") \/ Format("yaml")

FieldSpec == FieldInit /\ [][FieldNext]_vars

----------------------------------------------------------------------------
(* The callers of the helpers *)

MaxSizeLen == 3     \* length of the size texts over SizeChars

\* every text of at most MaxSizeLen characters over digits, point, signs,
\* blank, a unit letter and a letter that is no unit
SizeChars == {"1", "0", ".", "-", "+", " ", "K", "x"}
RECURSIVE SizeTextsOver(_)
SizeTextsOver(n) ==
    IF n = 0 THEN {""}
    ELSE LET shorter == SizeTextsOver(n - 1)
         IN shorter \cup {s \o c : s \in {x \in shorter : Len(x) = n - 1}, c \in SizeChars}

\* numbers around the places where the product or the number itself leaves
\* u64 (2^64 = 18446744073709551616 = 16777216 T = 18014398509481984 K), with
\* every unit letter and with blanks around
SizeNumbers ==
    { "0", "1", "512", "1023", "1.5", "-5", "-1.5", "inf", "nan",
      "4194304", "16777215", "16777216", "18014398509481983", "18014398509481984",
      "18446744073709551615", "18446744073709551616", "18446744073709553664",
      "18446744073709553665", "99999999999999999999" }
SizeUnitTexts == {""} \cup {CharAt(UnitLetters, i) : i \in 1..Len(UnitLetters)}
SizeTexts ==
    SizeTextsOver(MaxSizeLen)
        \cup {l \o n \o u \o r : l \in {"", " "}, n \in SizeNumbers, u \in SizeUnitTexts, r \in {"", " "}}

\* the arguments of status
StatusCodes == {"real", "fake", "progress"}
StatusFields ==
    {Object(m) : m \in Entries({"code", "resource", "id"}, {String("fake"), Number(123)}, MaxFields)}
        \cup {Null, String("code"), Number(123), Array(<<String("code")>>)}

HelperInit ==
    /\ orig = Null
    /\ value = orig
    /\ op = "new"
    /\ out = ""
    /\ call = NoCall
    /\ LayerIdle

\* parse_size(s); the helpers keep no state, so a behaviour holds one call
ParseSize(s) ==
    /\ call = NoCall
    /\ call' = [fn |-> "parse_size", s |-> s, ret |-> parse_size(s)]
    /\ UNCHANGED <<render, layer>>

\* status(code, fields)
Status(code, fields) ==
    /\ call = NoCall
    /\ call' = [fn |-> "status", code |-> code, fields |-> fields, ret |-> status(code, fields)]
    /\ UNCHANGED <<render, layer>>

HelperNext ==
    \/ \E s \in SizeTexts : ParseSize(s)
    \/ \E code \in StatusCodes, fields \in StatusFields : Status(code, fields)

HelperSpec == HelperInit /\ [][HelperNext]_vars

----------------------------------------------------------------------------
(* The program around the layer: threads that open spans, record on them  *)
(* and emit events                                                         *)

MaxSpanWork == 4       \* spans created plus fields stored on spans in a behaviour
MaxLockEvents == 3     \* events emitted in a behaviour of LockSpec

\* what a span or an event records in one call: no field or one field for a
\* span, a message with or without a field for an event
SpanFieldPairs ==
    { <<"request_id", String("a")>>, <<"request_id", String("b")>>,
      <<"code", String("a")>>, <<"message", Number(5)>> }
SpanRecords == {<<>>} \cup {<<f>> : f \in SpanFieldPairs}
EventRecords ==
    { <<>>,
      << <<"message", String("hello")>> >>,
      << <<"message", String("hello")>>, <<"request_id", String("b")>> >>,
      << <<"message", String("hello")>>, <<"code", String("b")>> >>,
      << <<"request_id", String("a")>> >> }
EventInputs ==
    {[level |-> l, recorded |-> <<>>] : l \in Levels}
        \cup {[level |-> "WARN", recorded |-> r] : r \in EventRecords}
Clock == {1280}
Target == "app"

\* the events emitted so far: written, or in flight
Emitted ==
    Cardinality({i \in DOMAIN sink : sink[i] = Newline})
        + Cardinality({t \in Threads : pc[t] # "idle"})

\* the spans created so far plus the fields stored on them
RECURSIVE StoredFields(_, _)
StoredFields(registry, i) ==
    IF i > Len(registry) THEN 0 ELSE Len(registry[i].fields) + StoredFields(registry, i + 1)
SpanWork == Len(spans) + StoredFields(spans, 1)

\* span!(..).entered(): on_new_span stores the fields of the attributes; the
\* new span is a child of the current span of the thread and becomes current
NewSpan(t, attrs) ==
    /\ pc[t] = "idle"
    /\ SpanWork + 1 + Len(JsonVisitor(attrs).fields) <= MaxSpanWork
    /\ spans' = Append(spans, [parent |-> current[t], fields |-> JsonVisitor(attrs).fields])
    /\ current' = [current EXCEPT ![t] = Len(spans) + 1]
    /\ UNCHANGED <<render, call, pc, event, lock, sink>>

\* span.record(..) on the current span: on_record extends its fields
Record(t, values) ==
    /\ pc[t] = "idle"
    /\ current[t] # 0
    /\ SpanWork + Len(JsonVisitor(values).fields) <= MaxSpanWork
    /\ spans' = [spans EXCEPT ![current[t]].fields = @ \o JsonVisitor(values).fields]
    /\ UNCHANGED <<render, call, current, pc, event, lock, sink>>

\* the guard of the current span is dropped: its parent is current again
Exit(t) ==
    /\ pc[t] = "idle"
    /\ current[t] # 0
    /\ current' = [current EXCEPT ![t] = spans[current[t]].parent]
    /\ UNCHANGED <<render, call, spans, pc, event, lock, sink>>

\* on_event up to `let line = ..`: the object of the event is built from the
\* clock, the event and the spans of its scope
OnEvent(t, level, recorded, now) ==
    /\ pc[t] = "idle"
    /\ event' = [event EXCEPT ![t] =
                    [level |-> level, recorded |-> recorded,
                     value |-> on_event_value(spans, current[t], level, Target, recorded, now)]]
    /\ pc' = [pc EXCEPT ![t] = "built"]
    /\ UNCHANGED <<render, call, spans, current, lock, sink>>

\* let mut out = io::stdout().lock()
Lock(t) ==
    /\ pc[t] = "built"
    /\ stdout_lock(lock)
    /\ lock' = t
    /\ pc' = [pc EXCEPT ![t] = "locked"]
    /\ UNCHANGED <<render, call, spans, current, event, sink>>

\* out.write_all(line.as_bytes())
WriteLine(t) ==
    /\ pc[t] = "locked"
    /\ sink' = Append(sink, Line(event[t].value))
    /\ pc' = [pc EXCEPT ![t] = "line"]
    /\ UNCHANGED <<render, call, spans, current, event, lock>>

\* out.write_all(b"\n"), and `out` is dropped at the end of on_event
WriteNewline(t) ==
    /\ pc[t] = "line"
    /\ sink' = Append(sink, Newline)
    /\ lock' = "free"
    /\ pc' = [pc EXCEPT ![t] = "idle"]
    /\ event' = [event EXCEPT ![t] = Null]
    /\ UNCHANGED <<render, call, spans, current>>

LayerInit ==
    /\ orig = Null
    /\ value = orig
    /\ op = "new"
    /\ out = ""
    /\ call = NoCall
    /\ LayerIdle

\* one thread: spans and records in any order, and an event at any point of
\* them; on_event reads the spans and the event only, nothing of the events
\* before it, so a behaviour holds one event
TraceNext ==
    \/ \E attrs \in SpanRecords : NewSpan("main", attrs)
    \/ \E values \in SpanRecords \ {<<>>} : Record("main", values)
    \/ Exit("main")
    \/ \E e \in EventInputs, now \in Clock :
            Emitted = 0 /\ OnEvent("main", e.level, e.recorded, now)
    \/ Lock("main")
    \/ WriteLine("main")
    \/ WriteNewline("main")

TraceSpec == LayerInit /\ [][TraceNext]_vars

\* two threads that emit events at the same time
LockNext ==
    \E t \in Threads :
        \/ \E level \in {"INFO", "ERROR"}, now \in Clock :
                Emitted < MaxLockEvents /\ OnEvent(t, level, <<>>, now)
        \/ Lock(t)
        \/ WriteLine(t)
        \/ WriteNewline(t)

LockSpec == LayerInit /\ [][LockNext]_vars

----------------------------------------------------------------------------
(* Vocabulary of the properties *)

IsScalar(v) == v.t \in {"null", "bool", "number", "string"}

\* the exact-case secret suffixes
SecretSuffix(k) == ends_with(k, "_secret") \/ ends_with(k, "_SECRET")

Marker == String("***")

RECURSIVE SecretScalarsMasked(_)
\* every scalar under a secret-suffixed key, at any depth of v, is the marker
SecretScalarsMasked(v) ==
    CASE v.t = "object" ->
            \A i \in DOMAIN v.m :
                /\ (SecretSuffix(v.m[i][1]) /\ IsScalar(v.m[i][2])) => v.m[i][2] = Marker
                /\ SecretScalarsMasked(v.m[i][2])
      [] v.t = "array" -> \A i \in DOMAIN v.a : SecretScalarsMasked(v.a[i])
      [] OTHER -> TRUE

RECURSIVE WithSecrets(_, _, _)
\* v with w in place of every scalar under a secret-suffixed key; with
\* anyType, in place of every value under a secret-suffixed key
WithSecrets(v, w, anyType) ==
    CASE v.t = "object" ->
            Object([i \in DOMAIN v.m |->
                IF SecretSuffix(v.m[i][1]) /\ (anyType \/ IsScalar(v.m[i][2]))
                THEN <<v.m[i][1], w>>
                ELSE <<v.m[i][1], WithSecrets(v.m[i][2], w, anyType)>>])
      [] v.t = "array" -> Array([i \in DOMAIN v.a |-> WithSecrets(v.a[i], w, anyType)])
      [] OTHER -> v

RECURSIVE SameShape(_, _)
\* the same containers: equal keys in equal order, equal lengths
SameShape(a, b) ==
    /\ a.t = b.t
    /\ a.t = "object" =>
            /\ Len(a.m) = Len(b.m)
            /\ \A i \in DOMAIN a.m :
                    a.m[i][1] = b.m[i][1] /\ SameShape(a.m[i][2], b.m[i][2])
    /\ a.t = "array" =>
            /\ Len(a.a) = Len(b.a)
            /\ \A i \in DOMAIN a.a : SameShape(a.a[i], b.a[i])

\* every container directly inside v has its secret scalars masked
NestedSecretsMasked(v) ==
    CASE v.t = "object" ->
            \A i \in DOMAIN v.m : ~IsScalar(v.m[i][2]) => SecretScalarsMasked(v.m[i][2])
      [] v.t = "array" ->
            \A i \in DOMAIN v.a : ~IsScalar(v.a[i]) => SecretScalarsMasked(v.a[i])
      [] OTHER -> TRUE

Keys(v) == {v.m[i][1] : i \in DOMAIN v.m}

IsSingleScalarField(v) == is_object(v) /\ Len(v.m) = 1 /\ IsScalar(v.m[1][2])

\* the lines of a text
Lines(text) ==
    LET nl == SelectSeq([i \in 1..Len(text) |-> i], LAMBDA i : CharAt(text, i) = "\n")
        cuts == <<0>> \o nl \o <<Len(text) + 1>>
    IN [j \in 1..(Len(cuts) - 1) |-> SubSeq(text, cuts[j] + 1, cuts[j + 1] - 1)]

LeadingSpaces(line) ==
    CHOOSE n \in 0..Len(line) :
        /\ \A i \in 1..n : CharAt(line, i) = " "
        /\ n = Len(line) \/ CharAt(line, n + 1) # " "

\* a line `<indent><key>:...`, neither a sequence item nor the separator
IsFieldLine(line) ==
    LET n == LeadingSpaces(line)
    IN n < Len(line) /\ CharAt(line, n + 1) # "-" /\ contains(line, ":")

LineKey(line) ==
    LET n == LeadingSpaces(line)
        p == CHOOSE i \in 1..Len(line) :
                CharAt(line, i) = ":" /\ \A j \in 1..(i - 1) : CharAt(line, j) # ":"
    IN SubSeq(line, n + 1, p - 1)

\* the keys emitted at an indentation of n spaces, in output order; every
\* explored tree holds at most one object per indentation
KeysAtIndent(text, n) ==
    LET fields == SelectSeq(Lines(text), LAMBDA l : IsFieldLine(l) /\ LeadingSpaces(l) = n)
    IN [i \in DOMAIN fields |-> LineKey(fields[i])]

Indents(text) == {LeadingSpaces(Lines(text)[i]) : i \in DOMAIN Lines(text)}

\* the suffix rules of the specification, in priority order
SpecRules ==
    << [suffix |-> "_epoch_ms", type |-> "integer"],
       [suffix |-> "_epoch_s", type |-> "integer"],
       [suffix |-> "_epoch_ns", type |-> "integer"],
       [suffix |-> "_rfc3339", type |-> "string"],
       [suffix |-> "_usd_cents", type |-> "unsigned"],
       [suffix |-> "_eur_cents", type |-> "unsigned"],
       [suffix |-> "_cents", type |-> "unsigned"],
       [suffix |-> "_jpy", type |-> "unsigned"],
       [suffix |-> "_msats", type |-> "number"],
       [suffix |-> "_sats", type |-> "number"],
       [suffix |-> "_btc", type |-> "number"],
       [suffix |-> "_bytes", type |-> "integer"],
       [suffix |-> "_percent", type |-> "number"],
       [suffix |-> "_minutes", type |-> "number"],
       [suffix |-> "_hours", type |-> "number"],
       [suffix |-> "_days", type |-> "number"],
       [suffix |-> "_ns", type |-> "number"],
       [suffix |-> "_us", type |-> "number"],
       [suffix |-> "_ms", type |-> "number"],
       [suffix |-> "_s", type |-> "number"],
       [suffix |-> "_secret", type |-> "any"] >>

\* the rule's suffix ends the key in all-lowercase or all-uppercase form; the
\* generic cents rule also needs a non-empty currency code
RuleMatches(r, k) ==
    /\ ends_with(k, r.suffix) \/ ends_with(k, to_uppercase(r.suffix))
    /\ r.suffix = "_cents" =>
            LET stem == SubSeq(k, 1, Len(k) - 6)
            IN rfind(stem, "_") > 0 /\ rfind(stem, "_") < Len(stem)

HasRule(k) == \E i \in DOMAIN SpecRules : RuleMatches(SpecRules[i], k)

FirstRule(k) ==
    SpecRules[CHOOSE i \in DOMAIN SpecRules :
        /\ RuleMatches(SpecRules[i], k)
        /\ \A j \in 1..(i - 1) : ~RuleMatches(SpecRules[j], k)]

TypeOk(r, v) ==
    CASE r.type = "integer" -> as_i64_some(v)
      [] r.type = "unsigned" -> as_u64_some(v)
      [] r.type = "number" -> v.t = "number"
      [] r.type = "string" -> v.t = "string"
      [] r.type = "any" -> TRUE

----------------------------------------------------------------------------
(* Properties *)

\* C1: after redaction every scalar (string, number, bool or null) under a
\* key ending in _secret or _SECRET, at any depth, is the string "***".
C1_SecretScalarsReplaced == op = "redact" => SecretScalarsMasked(value)

\* C2: the compact encoding shows "***" for every scalar under a secret-
\* suffixed key at any depth, so the encodings of two trees that differ only
\* in those scalars are equal.
C2_CompactHidesSecrets ==
    op = "json" =>
        /\ out = to_json(WithSecrets(value, Marker, FALSE))
        /\ out = format("json", WithSecrets(value, String("other"), FALSE))

\* C3: the document and the line encoding render any value under a secret-
\* suffixed key, whatever its type and depth, as "***", so the encodings of
\* two trees that differ only in the values under such keys are equal.
C3_RenderHidesSecrets ==
    op \in {"yaml", "plain"} =>
        /\ out = format(op, WithSecrets(value, Marker, TRUE))
        /\ out = format(op, WithSecrets(value, String("other"), TRUE))

MixedCaseKeys == {"api_key_Secret", "latency_Ms"}

\* C4: a field whose key carries a mixed-case suffix is left alone by the
\* redactor and rendered with its raw value by every renderer.
C4_MixedCaseUntouched ==
    /\ (op = "redact" /\ IsSingleScalarField(orig) /\ orig.m[1][1] \in MixedCaseKeys)
            => value = orig
    /\ (IsSingleScalarField(value) /\ value.m[1][1] \in MixedCaseKeys) =>
            /\ op = "plain" =>
                    out = value.m[1][1] \o ": " \o plain_scalar(value.m[1][2])
            /\ op = "yaml" =>
                    out = "---\n" \o value.m[1][1] \o ": " \o yaml_scalar(value.m[1][2])
            /\ op = "json" => out = to_json(value)

\* C5: redaction keeps every container (keys, order and lengths), also one
\* under a secret-suffixed key, and recurses into it: every secret-suffixed
\* scalar nested in a container is "***".
C5_ContainersKeptLeavesMasked ==
    op = "redact" => SameShape(orig, value) /\ NestedSecretsMasked(value)

\* C6: redaction is idempotent: redacting a redacted tree changes nothing.
C6_RedactIdempotent == op = "redact" => redact_secrets(value) = value

C6_Witness == op = "redact" /\ value # orig /\ redact_secrets(value) = value

C8_CollisionKeepsRaw ==
    (/\ op \in {"yaml", "plain"}
     /\ is_object(value)
     /\ {"response_ms", "response_s"} \subseteq Keys(value))
        => \A i \in DOMAIN value.m :
              value.m[i][1] \in {"response_ms", "response_s"} =>
                \E j \in DOMAIN Lines(out) :
                    Lines(out)[j] = value.m[i][1] \o ": "
                        \o (IF op = "yaml" THEN yaml_scalar(value.m[i][2])
                            ELSE plain_scalar(value.m[i][2]))

\* C9: in the document and the line encoding the keys emitted for the fields
\* of one object are pairwise distinct.
C9_DisplayKeysDistinct ==
    (op \in {"yaml", "plain"} /\ is_object(value)) =>
        \A n \in Indents(out) :
            LET ks == KeysAtIndent(out, n)
            IN \A i, j \in DOMAIN ks : i # j => ks[i] # ks[j]

C9_Witness ==
    /\ op = "plain"
    /\ is_object(value)
    /\ {"response_ms", "response_s", "response_ms_s"} \subseteq Keys(value)
    /\ Len(KeysAtIndent(out, 0)) = Len(value.m)

\* C10: at every nesting level the fields of an object are emitted in
\* ascending order of their keys compared as UTF-16 code unit sequences,
\* whatever the order of the entries in the input.
C10_FieldsAscending ==
    (op \in {"yaml", "plain"} /\ is_object(value)) =>
        \A n \in Indents(out) :
            LET ks == KeysAtIndent(out, n)
            IN \A i \in 1..(Len(ks) - 1) :
                    cmp_less(encode_utf16(ks[i]), encode_utf16(ks[i + 1]))

C10_Witness ==
    /\ op = "yaml"
    /\ value = Object(<< <<"zone", Number(1)>>,
                         <<"outer_secret", Object(<< <<"response_s", Number(150)>>,
                                                     <<"response_ms", Number(150)>>,
                                                     <<"ZONE", Number(150)>> >>)>> >>)
    /\ out = "---\nouter_secret:\n  ZONE: 150\n  response_ms: 150\n  response_s: 150\nzone: 1"

\* C11: rendering is total: no render call aborts, also not for the extreme
\* i64 / u64 values under a timestamp, size, duration or currency suffix; an
\* instant that cannot be converted (seconds whose milliseconds leave i64) is
\* rendered as the raw number.
C11_RenderTotal ==
    /\ op # "panic"
    /\ (/\ op = "plain"
        /\ IsSingleScalarField(value)
        /\ value.m[1][1] = "created_epoch_s"
        /\ value.m[1][2] \in {I64_MAX, I64_MIN})
            => out = "created_epoch_s: " \o plain_scalar(value.m[1][2])

RECURSIVE AllKeys(_)
\* the keys of v at every depth
AllKeys(v) ==
    CASE v.t = "object" -> Keys(v) \cup UNION {AllKeys(v.m[i][2]) : i \in DOMAIN v.m}
      [] v.t = "array" -> UNION {AllKeys(v.a[i]) : i \in DOMAIN v.a}
      [] OTHER -> {}

\* the JSON text of a scalar whose string needs no escape
RawJson(v) == IF v.t = "string" THEN "\"" \o v.s \o "\"" ELSE plain_scalar(v)

\* C12: the compact encoding keeps every key under its original name, suffix
\* included, and every value that is no secret with its type and raw value:
\* no suffix-driven formatting, no key stripping.
C12_CompactKeepsKeysAndValues ==
    op = "json" =>
        /\ \A k \in AllKeys(value) : contains(out, "\"" \o k \o "\":")
        /\ (IsSingleScalarField(value) /\ ~SecretSuffix(value.m[1][1])) =>
                out = "{\"" \o value.m[1][1] \o "\":" \o RawJson(value.m[1][2]) \o "}"

C12_Witness ==
    /\ op = "json"
    /\ value = Object(<< <<"latency_ms", Number(1280)>> >>)
    /\ out = "{\"latency_ms\":1280}"

\* C13: no render call changes the caller's tree: after a compact, document
\* or line output the caller's value is what it was before the call.
C13_RenderKeepsTree == [][op' \in Formats => value' = value]_vars

\* C13 as stated, redaction included: after any call, also after redacting the
\* tree, the caller's value is what it was before the call.
C13_EveryCallKeepsTree == [][value' = value]_vars

C13_Witness ==
    /\ op = "json"
    /\ value = Object(<< <<"api_key_secret", String("sk-123")>> >>)
    /\ value = orig
    /\ out = "{\"api_key_secret\":\"sk-123\"}"

\* C14: the document encoding emits a formatted field under its stripped
\* display key with the formatted text as a double-quoted string:
\* latency_ms: 1280 becomes latency: "1.28s", latency_ms: 42 becomes
\* latency: "42ms".
C14_DocumentFormatsField ==
    (/\ op = "yaml"
     /\ IsSingleScalarField(value)
     /\ value.m[1][1] = "latency_ms"
     /\ value.m[1][2] \in {Number(42), Number(1280)})
        => out = "---\nlatency: \""
                    \o (IF value.m[1][2] = Number(42) THEN "42ms" ELSE "1.28s") \o "\""

\* C15: the line encoding of an object is one line without a line break:
\* path=value tokens joined by single spaces, the empty string for the empty
\* object, name=unknown for the single field name: "unknown".
C15_SingleLineTokens ==
    (op = "plain" /\ is_object(value)) =>
        /\ ~contains(out, "\n")
        /\ Len(value.m) = 0 => out = ""
        /\ value = Object(<< <<"name", String("unknown")>> >>) => out = "name=unknown"

\* the tokens of a line: its parts between single spaces
Tokens(text) ==
    LET sp == SelectSeq([i \in 1..Len(text) |-> i], LAMBDA i : CharAt(text, i) = " ")
        cuts == <<0>> \o sp \o <<Len(text) + 1>>
    IN [j \in 1..(Len(cuts) - 1) |-> SubSeq(text, cuts[j] + 1, cuts[j + 1] - 1)]

\* C16: in the line encoding a nested object emits no token of its own; each
\* field below it is a token whose path joins the keys from the root with
\* dots (trace.count=3), and the tokens of all levels are sorted together.
C16_DottedPathsSorted ==
    (op = "plain" /\ value \in PathTrees) =>
        LET inner == (CHOOSE i \in DOMAIN value.m : value.m[i][1] = "trace")
            nested == value.m[inner][2]
            toks == Tokens(out)
        IN /\ \A i \in DOMAIN toks : toks[i] \notin {"trace:", "trace=", "trace"}
           /\ \A i \in DOMAIN nested.m :
                nested.m[i][1] = "count" =>
                    \E j \in DOMAIN toks :
                        toks[j] = "trace.count=" \o plain_scalar(nested.m[i][2])
           /\ ~contains(out, "\n")
           /\ \A i \in 1..(Len(toks) - 1) :
                cmp_less(encode_utf16(toks[i]), encode_utf16(toks[i + 1]))

\* the text after `key: ` of the line of a single-field object
FieldText(text, k) == SubSeq(text, Len(k) + 3, Len(text))

\* the shape YYYY-MM-DDThh:mm:ss.mmmZ
IsTimestamp(text) ==
    /\ Len(text) = 24
    /\ CharAt(text, 5) = "-" /\ CharAt(text, 8) = "-" /\ CharAt(text, 11) = "T"
    /\ CharAt(text, 14) = ":" /\ CharAt(text, 17) = ":" /\ CharAt(text, 20) = "."
    /\ CharAt(text, 24) = "Z"

\* C17: a compound suffix wins over the generic suffix it ends with: an
\* integer under _epoch_ms, _epoch_s or _epoch_ns is rendered as a timestamp,
\* never as a duration; an unsigned integer under _usd_cents or _eur_cents
\* with the currency symbol, never in the generic "amount CODE" form; a
\* number under _msats as msats.
C17_CompoundSuffixFirst ==
    (op = "plain" /\ IsSingleScalarField(value)) =>
        LET k == value.m[1][1]
            v == value.m[1][2]
            text == FieldText(out, k)
        IN /\ (/\ \E unit \in {"ms", "s", "ns"} : ends_with(k, "_epoch_" \o unit)
               /\ as_i64_some(v))
                    => /\ \A unit \in {"ms", "s", "ns"} : text # plain_scalar(v) \o unit
                       /\ v.k = "int" => IsTimestamp(text)
           /\ (ends_with(k, "_usd_cents") /\ as_u64_some(v))
                    => starts_with(text, "$") /\ ~ends_with(text, " USD")
           /\ (ends_with(k, "_eur_cents") /\ as_u64_some(v))
                    => starts_with(text, "€") /\ ~ends_with(text, " EUR")
           /\ (ends_with(k, "_msats") /\ is_number(v))
                    => text = plain_scalar(v) \o "msats"

C17_Witness ==
    /\ op = "plain"
    /\ value = Object(<< <<"created_epoch_ms", Number(1280)>> >>)
    /\ out = "created_epoch_ms: 1970-01-01T00:00:01.280Z"

\* n / 1000 with up to three decimals, trailing zeros trimmed, at least one
\* decimal kept, for n >= 0
TrimmedSeconds(n) == ToString(n \div 1000) \o "." \o TrimZeros(Pad3(n % 1000))

IsMsField(v) ==
    IsSingleScalarField(v) /\ v.m[1][1] = "latency_ms" /\ v.m[1][2].k = "int"

\* C18: a non-negative integer n under _ms is rendered as {n}ms when
\* n < 1000, otherwise in seconds with up to three decimals, trailing zeros
\* trimmed and at least one decimal kept (1000 is 1.0s, 1001 is 1.001s, 1280
\* is 1.28s).
C18_MsTrimmedSeconds ==
    (op = "plain" /\ IsMsField(value) /\ value.m[1][2].n >= 0) =>
        LET n == value.m[1][2].n
        IN FieldText(out, "latency_ms") =
                IF n < 1000 THEN ToString(n) \o "ms" ELSE TrimmedSeconds(n) \o "s"

\* C19: the _ms rule decides on the absolute value: a negative integer n with
\* |n| >= 1000 is rendered in seconds with its sign, one with |n| < 1000 as
\* {n}ms.
C19_NegativeMsBySize ==
    (op = "plain" /\ IsMsField(value) /\ value.m[1][2].n < 0) =>
        LET n == value.m[1][2].n
        IN FieldText(out, "latency_ms") =
                IF -n < 1000 THEN ToString(n) \o "ms" ELSE "-" \o TrimmedSeconds(-n) \o "s"

NatDistance(a, b) == IF NatLess(a, b) THEN NatSub(b, a) ELSE NatSub(a, b)

BinaryUnits == <<"KB", "MB", "GB", "TB">>

\* the number of the largest unit 1024^j, j in 0..4, that does not exceed mag
UnitOf(mag) ==
    CHOOSE j \in 0..Len(BinaryUnits) :
        /\ j = 0 \/ ~NatLess(mag, NatShl(<<1>>, 10 * j))
        /\ j = Len(BinaryUnits) \/ NatLess(mag, NatShl(<<1>>, 10 * (j + 1)))

\* text is `W.d` and W.d is a nearest one-decimal number to mag / 1024^j; a
\* magnitude that f64 cannot hold is first rounded to 53 bits
IsOneDecimalOf(text, mag, j) ==
    LET whole == SubSeq(text, 1, Len(text) - 2)
        tenth == SubSeq(text, Len(text), Len(text))
        unit == NatShl(<<1>>, 10 * j)
        slack == IF NatBitLen(mag) > 53 THEN NatShl(<<1>>, NatBitLen(mag) - 49) ELSE <<>>
    IN /\ Len(text) >= 3
       /\ CharAt(text, Len(text) - 1) = "."
       /\ IsDigits(whole) /\ IsDigits(tenth)
       /\ whole = "0" \/ CharAt(whole, 1) # "0"
       /\ ~NatLess(NatAdd(unit, slack),
                   NatMulSmall(NatDistance(NatMulSmall(mag, 10),
                                           NatShl(ParseNat(whole \o tenth, 1, <<>>), 10 * j)), 2))

\* C20: for every i64 n under _bytes: the raw number followed by B when
\* |n| < 1024; otherwise |n| scaled by the largest of KB, MB, GB, TB that does
\* not exceed |n|, printed with one decimal and the unit, with a leading - for
\* negative n.
C20_BytesBinaryUnits ==
    (/\ op = "plain"
     /\ IsSingleScalarField(value)
     /\ value.m[1][1] = "size_bytes"
     /\ as_i64_some(value.m[1][2])) =>
        LET n == integer(value.m[1][2])
            text == FieldText(out, "size_bytes")
            j == UnitOf(n.mag)
            sign == IF n.neg THEN "-" ELSE ""
        IN IF j = 0 THEN text = plain_scalar(value.m[1][2]) \o "B"
           ELSE /\ starts_with(text, sign)
                /\ ends_with(text, BinaryUnits[j])
                /\ IsOneDecimalOf(SubSeq(text, Len(sign) + 1, Len(text) - 2), n.mag, j)

C20_Witness ==
    /\ op = "plain"
    /\ value = Object(<< <<"size_bytes", I64_MIN>> >>)
    /\ out = "size_bytes: -8388608.0TB"

\* the number written by the digits text[from..to]
DigitsAt(text, from, to) == NatToInt(ParseNat(SubSeq(text, from, to), 1, <<>>))

\* the days from 1970-01-01 to the civil date y-m-d (proleptic Gregorian)
DaysFromCivil(y, m, d) ==
    LET yy == IF m <= 2 THEN y - 1 ELSE y
        era == (IF yy >= 0 THEN yy ELSE yy - 399) \div 400
        yoe == yy - era * 400
        doy == (153 * (IF m > 2 THEN m - 3 ELSE m + 9) + 2) \div 5 + d - 1
        doe == yoe * 365 + yoe \div 4 - yoe \div 100 + doy
    IN era * 146097 + doe - 719468

\* a - b on signed integers
SignedSub(a, b) ==
    IF a.neg # b.neg THEN I64(a.neg, NatAdd(a.mag, b.mag))
    ELSE IF NatLess(a.mag, b.mag) THEN I64(~a.neg, NatSub(b.mag, a.mag))
    ELSE I64(a.neg, NatSub(a.mag, b.mag))

\* the unix milliseconds of the instant a timestamp text YYYY-MM-DDThh:mm:ss.mmmZ
\* denotes
InstantMs(text) ==
    LET days == DaysFromCivil(DigitsAt(text, 1, 4), DigitsAt(text, 6, 7), DigitsAt(text, 9, 10))
        in_day == ((DigitsAt(text, 12, 13) * 60 + DigitsAt(text, 15, 16)) * 60
                        + DigitsAt(text, 18, 19)) * 1000 + DigitsAt(text, 21, 23)
        day_ms(n) == NatMulSmall(NatMulSmall(NatMulSmall(NatFromInt(n), 1000), 864), 100)
    IN IF days >= 0 THEN I64(FALSE, NatAdd(day_ms(days), NatFromInt(in_day)))
       ELSE I64(TRUE, NatSub(day_ms(-days), NatFromInt(in_day)))

\* the text is a timestamp with a time of day: every part is made of digits,
\* the millisecond part of three
IsInstantText(text) ==
    /\ IsTimestamp(text)
    /\ \A part \in {<<1, 4>>, <<6, 7>>, <<9, 10>>, <<12, 13>>, <<15, 16>>, <<18, 19>>, <<21, 23>>} :
            IsDigits(SubSeq(text, part[1], part[2]))
    /\ DigitsAt(text, 12, 13) < 24 /\ DigitsAt(text, 15, 16) < 60 /\ DigitsAt(text, 18, 19) < 60

\* the instant is the floor of n in milliseconds: n for ms, n * 1000 for s,
\* and for ns the instant with 0 <= n - instant * 10^6 < 10^6
IsFloorInstant(instant, n, unit) ==
    CASE unit = "ms" -> instant = n
      [] unit = "s" -> instant = I64(n.neg, NatMulSmall(n.mag, 1000))
      [] unit = "ns" ->
            LET rest == SignedSub(n, I64(instant.neg,
                                         NatMulSmall(NatMulSmall(instant.mag, 1000), 1000)))
            IN ~rest.neg /\ NatLess(rest.mag, NatFromInt(1000000))

\* C21: every integer under _epoch_ms, _epoch_s or _epoch_ns is rendered as
\* the instant of its floor in milliseconds (the millisecond part three digits
\* in 000..999), also when it is negative; only an integer beyond the range of
\* representable instants is rendered raw.
C21_EpochFloorInstant ==
    (op = "plain" /\ IsSingleScalarField(value)) =>
        LET k == value.m[1][1]
            v == value.m[1][2]
            text == FieldText(out, k)
        IN \A unit \in {"ms", "s", "ns"} :
            (ends_with(k, "_epoch_" \o unit) /\ as_i64_some(v)) =>
                IF IsInstantText(text)
                THEN IsFloorInstant(InstantMs(text), integer(v), unit)
                ELSE text = plain_scalar(v) /\ NatBitLen(integer(v).mag) > 53

\* the currency code token of a key `..._{code}_cents`: the characters between
\* `_cents` and the underscore before it; "" when there is none
CodeToken(k) ==
    LET stem == SubSeq(k, 1, Len(k) - 6)
        start == CHOOSE i \in 1..(Len(stem) + 1) :
                    /\ ~contains(SubSeq(stem, i, Len(stem)), "_")
                    /\ i = 1 \/ CharAt(stem, i - 1) = "_"
    IN IF start = 1 THEN "" ELSE SubSeq(stem, start, Len(stem))

\* C22: under a key `_{code}_cents` that no specific currency rule takes, an
\* unsigned integer n is rendered as n div 100, a point, n mod 100 in two
\* digits, a space and the code in upper case when the code token is non-empty;
\* with an empty code token the value gets no currency formatting.
C22_GenericCentsNeedsCode ==
    (op = "plain" /\ IsSingleScalarField(value)) =>
        LET k == value.m[1][1]
            v == value.m[1][2]
            n == NatDivModSmall(integer(v).mag, 100)
        IN (/\ ends_with(k, "_cents")
            /\ ~ends_with(k, "_usd_cents") /\ ~ends_with(k, "_eur_cents")
            /\ as_u64_some(v)) =>
                FieldText(out, k) =
                    IF CodeToken(k) # ""
                    THEN NatToString(n[1]) \o "." \o Pad2(n[2]) \o " " \o to_uppercase(CodeToken(k))
                    ELSE plain_scalar(v)

\* the text without its commas
WithoutCommas(text) ==
    LET F[i \in 0..Len(text)] ==
            IF i = 0 THEN ""
            ELSE F[i - 1] \o (IF CharAt(text, i) = "," THEN "" ELSE CharAt(text, i))
    IN F[Len(text)]

\* digits in groups of three separated by commas, the first group of one to
\* three digits: a comma stands exactly before every digit whose distance to
\* the end is a multiple of four
IsGroupedInThrees(text) ==
    /\ Len(text) > 0
    /\ \A i \in 1..Len(text) :
            IF (Len(text) - i + 1) % 4 = 0 THEN CharAt(text, i) = ","
            ELSE IndexIn(CharAt(text, i), Digits) > 0
    /\ Len(text) = 1 \/ CharAt(text, 1) # "0"

\* C23: every unsigned 64-bit integer n under _jpy is rendered as the yen sign
\* and then the digits of n in groups of three separated by commas: no leading
\* comma, no comma below 1000, no fraction, and the digits without the commas
\* are the decimal text of n.
C23_YenGroupedInThrees ==
    (op = "plain" /\ IsSingleScalarField(value)) =>
        LET k == value.m[1][1]
            v == value.m[1][2]
            text == FieldText(out, k)
            body == SubSeq(text, 2, Len(text))
        IN (ends_with(k, "_jpy") /\ as_u64_some(v)) =>
            /\ CharAt(text, 1) = "¥"
            /\ IsGroupedInThrees(body)
            /\ ParseNat(WithoutCommas(body), 1, <<>>) = integer(v).mag
            /\ NatLess(integer(v).mag, NatFromInt(1000)) => ~contains(body, ",")

C23_Witness ==
    /\ op = "plain" /\ IsSingleScalarField(value)
    /\ value.m[1][1] = "refund_jpy" /\ value.m[1][2] = U64_MAX
    /\ contains(out, ",")

\* the tree is one field holding a non-empty array of scalars other than null
IsScalarArrayField(v) ==
    /\ is_object(v) /\ Len(v.m) = 1
    /\ is_array(v.m[1][2]) /\ Len(v.m[1][2].a) > 0
    /\ \A i \in DOMAIN v.m[1][2].a : IsScalar(v.m[1][2].a[i]) /\ v.m[1][2].a[i] # Null

\* C24: the elements of an array field are never suffix-processed, whatever
\* suffix the key carries: each scalar element is rendered by the unformatted
\* scalar rule, in input order, comma-joined into the one value of the field in
\* the line encoding and on one dashed line each in the document encoding.
C24_ArrayElementsUnformatted ==
    IsScalarArrayField(value) =>
        LET k == value.m[1][1]
            a == value.m[1][2].a
        IN /\ op = "plain" =>
                out = k \o "=" \o join([i \in DOMAIN a |-> plain_scalar(a[i])], ",")
           /\ op = "yaml" =>
                Lines(out) = <<"---", k \o ":">> \o [i \in DOMAIN a |-> "  - " \o yaml_scalar(a[i])]

\* what the line renderer of the code does with such a field: a line `key:`
\* and one dashed line for each element
C24_PlainDashedLines ==
    (IsScalarArrayField(value) /\ op = "plain") =>
        Lines(out) = <<value.m[1][1] \o ":">>
                        \o [i \in DOMAIN value.m[1][2].a |-> "  - " \o plain_scalar(value.m[1][2].a[i])]

RECURSIVE Unescape(_, _, _)
\* the text a quoted scalar body denotes, read from position i on after acc:
\* a backslash and the character after it denote one character; <<FALSE, _>>
\* when the body holds a raw quote, a raw line break or tab, or a backslash
\* that starts none of the five escapes
Unescape(body, i, acc) ==
    IF i > Len(body) THEN <<TRUE, acc>>
    ELSE IF CharAt(body, i) = "\\"
    THEN LET c == CharAt(body, i + 1)
         IN IF i + 1 > Len(body) \/ c \notin {"\\", "\"", "n", "r", "t"} THEN <<FALSE, acc>>
            ELSE Unescape(body, i + 2,
                    acc \o (CASE c = "n" -> "\n" [] c = "r" -> "\r" [] c = "t" -> "\t"
                              [] OTHER -> c))
    ELSE IF CharAt(body, i) \in {"\"", "\n", "\r", "\t"} THEN <<FALSE, acc>>
    ELSE Unescape(body, i + 1, acc \o CharAt(body, i))

\* C25: in the document encoding a string scalar is written in double quotes
\* with backslash, quote, newline, carriage return and tab each replaced by a
\* two-character escape, the backslash first: the text between the quotes
\* holds no raw line break and no unescaped quote, reads back as the string,
\* and the field occupies exactly one output line.
C25_StringScalarEscaped ==
    (op = "yaml" /\ IsSingleScalarField(value) /\ is_string(value.m[1][2])) =>
        LET k == value.m[1][1]
            text == SubSeq(out, Len("---\n" \o k \o ": ") + 1, Len(out))
            body == SubSeq(text, 2, Len(text) - 1)
        IN /\ starts_with(out, "---\n" \o k \o ": ")
           /\ Len(text) >= 2 /\ CharAt(text, 1) = "\"" /\ CharAt(text, Len(text)) = "\""
           /\ Unescape(body, 1, "") = <<TRUE, value.m[1][2].s>>
           /\ Len(Lines(out)) = 2

C25_Witness ==
    /\ op = "yaml" /\ IsSingleScalarField(value)
    /\ value.m[1][2] = String("\\\"\n")
    /\ out = "---\nname: \"\\\\\\\"\\n\""

\* the text without the blanks around it
Stripped(text) ==
    LET inner == {i \in 1..Len(text) : CharAt(text, i) # " "}
    IN IF inner = {} THEN ""
       ELSE SubSeq(text, CHOOSE i \in inner : \A j \in inner : i <= j,
                         CHOOSE i \in inner : \A j \in inner : j <= i)

RECURSIVE Times1024(_, _)
\* n * 1024^k
Times1024(n, k) == IF k = 0 THEN n ELSE Times1024(NatMulSmall(n, 1024), k - 1)

\* the power of 1024 a unit letter stands for
UnitPower(u) == CASE u \in {"B", "b"} -> 0 [] u \in {"K", "k"} -> 1 [] u \in {"M", "m"} -> 2
                  [] u \in {"G", "g"} -> 3 [] u \in {"T", "t"} -> 4

\* C26: parse_size returns None for an empty text, for a text that is no
\* number with an optional unit and for a negative number; for an unsigned
\* integer n with an optional unit letter B, K, M, G or T in either case and
\* blanks around it returns n * 1024^k, and None when that product does not
\* fit in 64 bits.
C26_ParseSizeExact ==
    call.fn = "parse_size" =>
        LET s == Stripped(call.s)
            last == CharAt(s, Len(s))
            has_unit == last \in {"B", "b", "K", "k", "M", "m", "G", "g", "T", "t"}
            number == IF has_unit THEN SubSeq(s, 1, Len(s) - 1) ELSE s
            product == Times1024(ParseNat(number, 1, <<>>), IF has_unit THEN UnitPower(last) ELSE 0)
        IN IF s = "" THEN call.ret = None ELSE
           /\ (\A i \in 1..Len(number) : IndexIn(CharAt(number, i), Digits) = 0) => call.ret = None
           /\ (\E i \in 1..Len(number) : CharAt(number, i) \notin {"0", "1", "2", "3", "4", "5", "6", "7", "8", "9", ".", "+", "-"})
                    => call.ret = None
           /\ (starts_with(number, "-") /\ \E i \in 1..Len(number) : IndexIn(CharAt(number, i), Digits) > 1)
                    => call.ret = None
           /\ IsDigits(number) =>
                    call.ret = IF NatLess(product, Two64) THEN Some(product) ELSE None

\* the value an object holds under one of its keys
ValueAt(v, k) == v.m[CHOOSE i \in DOMAIN v.m : v.m[i][1] = k][2]

\* C27: the object status returns holds the code argument under `code`, also
\* when the fields hold a `code` of their own; it holds every other key of an
\* object `fields` with the value unchanged and no further key, and for fields
\* that are no object it holds `code` only.
C27_StatusCodeWins ==
    call.fn = "status" =>
        LET given == IF is_object(call.fields) THEN Keys(call.fields) \ {"code"} ELSE {}
        IN /\ is_object(call.ret)
           /\ Keys(call.ret) = given \cup {"code"}
           /\ Len(call.ret.m) = Cardinality(given) + 1
           /\ ValueAt(call.ret, "code") = String(call.code)
           /\ \A k \in given : ValueAt(call.ret, k) = ValueAt(call.fields, k)

C27_Witness ==
    /\ call.fn = "status" /\ call.code = "real"
    /\ is_object(call.fields) /\ Keys(call.fields) = {"code", "resource", "id"}
    /\ ValueAt(call.fields, "code") = String("fake")
    /\ ValueAt(call.ret, "code") = String("real")

\* what an event sets at its own level: the fields it records, its message
\* among them, and the code of its level when it records no code
EventLevel(e) ==
    IF \E i \in DOMAIN e.recorded : e.recorded[i][1] = "code" THEN e.recorded
    ELSE Append(e.recorded, <<"code", String(to_ascii_lowercase(e.level))>>)

\* the places of an event: the fields of the spans of its scope, the root
\* first, and then the event itself
Places(registry, leaf, e) ==
    LET scope == from_root(registry, leaf)
    IN [d \in DOMAIN scope |-> registry[scope[d]].fields] \o <<EventLevel(e)>>

\* where the key k is set: <<place, position>>
Setters(places, k) ==
    UNION {{<<d, i>> : i \in {j \in DOMAIN places[d] : places[d][j][1] = k}} : d \in DOMAIN places}

\* the innermost place that sets k and the latest position in it
Winner(places, k) ==
    CHOOSE p \in Setters(places, k) :
        \A q \in Setters(places, k) : q[1] < p[1] \/ (q[1] = p[1] /\ q[2] <= p[2])

\* the object built for the event e holds, for every key in a set of keys that
\* some place sets, the value of the innermost and latest place
InnermostWins(object, places, keys) ==
    \A k \in keys :
        Setters(places, k) # {} =>
            /\ k \in Keys(object)
            /\ ValueAt(object, k) = places[Winner(places, k)[1]][Winner(places, k)[2]][2]

TraceKeys == {"request_id", "code", "message"}

\* C28: in the object of a log event the innermost and latest value of a key
\* wins: the span fields are merged from the root to the leaf, a child
\* replaces its parent, a later record on a span replaces an earlier value,
\* and what the event sets replaces every span field of the same name.
C28_InnermostLatestWins ==
    [][\A t \in Threads :
            (pc[t] = "idle" /\ pc'[t] = "built") =>
                InnermostWins(event'[t].value, Places(spans, current[t], event'[t]), TraceKeys)]_vars

\* the same for every key but `message`
C28_ExceptMessage ==
    [][\A t \in Threads :
            (pc[t] = "idle" /\ pc'[t] = "built") =>
                InnermostWins(event'[t].value, Places(spans, current[t], event'[t]),
                              TraceKeys \ {"message"})]_vars

\* a child span and a later record have replaced earlier values of a key
C28_Replaced ==
    /\ pc["main"] = "built"
    /\ Len(from_root(spans, current["main"])) = 2
    /\ Cardinality(Setters(Places(spans, current["main"], event["main"]), "request_id")) >= 2

\* C29: every object built for an event, and every object written, has a
\* `code`: the code the event records when it records one, otherwise the name
\* of its level in lower case, whatever fields the spans of its scope carry.
C29_CodeOfEventOrLevel ==
    /\ \A t \in Threads :
            pc[t] # "idle" =>
                LET own == {i \in DOMAIN event[t].recorded : event[t].recorded[i][1] = "code"}
                    last == CHOOSE i \in own : \A j \in own : j <= i
                IN /\ "code" \in Keys(event[t].value)
                   /\ ValueAt(event[t].value, "code") =
                        IF own # {} THEN event[t].recorded[last][2]
                        ELSE String(to_ascii_lowercase(event[t].level))
    /\ \A i \in DOMAIN sink : sink[i] # Newline => "code" \in Keys(sink[i][2])

C29_Witness ==
    /\ pc["main"] = "line"
    /\ event["main"].level = "WARN"
    /\ \A i \in DOMAIN event["main"].recorded : event["main"].recorded[i][1] # "code"
    /\ current["main"] # 0
    /\ \E i \in DOMAIN spans[current["main"]].fields :
            spans[current["main"]].fields[i] = <<"code", String("a")>>
    /\ ValueAt(sink[1][2], "code") = String("warn")

\* C30: the line of an event and its line break are written while one thread
\* holds the stdout lock: a thread between its lock and its line break is the
\* holder, and the sink is a sequence of whole records, each a line and then
\* its line break, with at most the line of the holder at the end.
C30_RecordsNotInterleaved ==
    /\ \A t \in Threads : pc[t] \in {"locked", "line"} => lock = t
    /\ \A i \in DOMAIN sink :
            IF i % 2 = 1 THEN sink[i] # Newline /\ sink[i][1] = "line" ELSE sink[i] = Newline
    /\ Len(sink) % 2 = 1 <=> \E t \in Threads : pc[t] = "line"

C30_Witness ==
    /\ pc["main"] = "line" /\ pc["worker"] = "built"
    /\ lock = "main"
    /\ Len(sink) = 3

====
